---- MODULE Spec2Model ----
(***************************************************************************)
(* The graph-algorithm execution engine of the repository                  *)
(* (client/src/lib/algorithms.ts and the copies in the server storage      *)
(* classes): createAdjacencyList and the four runners executeBFS,          *)
(* executeDFS, executeDijkstra and executeAStar, each producing a trace    *)
(* of step records.                                                        *)
(*                                                                         *)
(* A run is one behaviour: the initial state holds the arguments of the    *)
(* call, the runner's prologue is one action, every iteration of its main  *)
(* loop is one action, and the code after the loop (Dijkstra, AStar) is    *)
(* one action.  pc is the position of the call: "called", a loop label, an *)
(* epilogue label, "returned" or "threw".                                  *)
(*                                                                         *)
(* JavaScript values: a Set is a sequence without repetitions (its         *)
(* iteration order is its insertion order), a Record<string, T> is a       *)
(* function, an optional field is a record field that is present or not,   *)
(* undefined/null arguments are the strings NoTarget and Null.             *)
(***************************************************************************)
EXTENDS Integers, Sequences, FiniteSets, TLC

(***************************************************************************)
(* Bounds of the model.                                                    *)
(***************************************************************************)
MaxNodes == 3
MaxEdges == 1
MaxWeight == 2
MaxCoord == 3

(***************************************************************************)
(* Values.                                                                 *)
(***************************************************************************)
\* Node identifiers: unique non-empty strings (generateId); node lists are
\* prefixes of Ids, which loses nothing: the engine only compares ids.
Ids == <<"A", "B", "C", "D", "E">>
\* An identifier that is the id of no node.
Unknown == "Z"
\* targetNodeId omitted (undefined).
NoTarget == "undefined"
\* previous[n] before n has a predecessor; the current of A*'s last step.
Null == "null"
\* The current of A*'s last step in DatabaseStorage.
Undefined == "undefined"
\* Number.POSITIVE_INFINITY: larger than every finite distance of the model.
Infinity == 1000000

Algorithms == {"bfs", "dfs", "dijkstra", "astar"}
\* A tag that no switch has a case for.
Unsupported == "prim"

\* The messages of the errors the code throws by name.
MissingTarget == "A* search requires a target node"
UnknownAlgorithm == "Unknown algorithm"
UnsupportedAlgorithm == "Unsupported algorithm"

\* The copies of the engine: the functions of the client module and the two
\* storage classes of the server.
Servers == {"MemStorage", "DatabaseStorage"}
Sites == {"client"} \cup Servers

Has(seq, x) == \E i \in DOMAIN seq : seq[i] = x

\* Set.prototype.add on a Set kept as a sequence in insertion order.
SetAdd(seq, x) == IF Has(seq, x) THEN seq ELSE Append(seq, x)

\* Set.prototype.delete.
SetDelete(seq, x) == SelectSeq(seq, LAMBDA y : y # x)

\* record[key] = value on a Record<string, T>: creates the key when absent.
Put(f, k, v) == [x \in (DOMAIN f) \cup {k} |-> IF x = k THEN v ELSE f[x]]

Last(seq) == seq[Len(seq)]

\* The list as it is: no reversal.
NotReversed(seq) == seq

RECURSIVE Reverse(_)
Reverse(seq) == IF seq = <<>> THEN <<>> ELSE Append(Reverse(Tail(seq)), Head(seq))

\* nodes.map(n => n.id)
NodeIdSeq(ns) == [i \in DOMAIN ns |-> ns[i].id]

NodeIds(ns) == {ns[i].id : i \in DOMAIN ns}

(***************************************************************************)
(* createAdjacencyList                                                     *)
(***************************************************************************)
\* const weight = edge.weight ?? 1: the declared weight whenever one is
\* declared, 0 included.
EdgeWeightDeclared(edge) ==
    IF "weight" \in DOMAIN edge THEN edge.weight ELSE 1

\* const weight = edge.weight || 1
EdgeWeight(edge) ==
    IF "weight" \in DOMAIN edge /\ edge.weight # 0 THEN edge.weight ELSE 1

\* edges.forEach: push on adjacencyList[edge.source], then on
\* adjacencyList[edge.target]; a push on an absent list is a TypeError.
RECURSIVE AddEdges(_, _, _)
AddEdges(adj, es, i) ==
    IF i > Len(es) THEN [threw |-> FALSE, adjacencyList |-> adj]
    ELSE LET edge == es[i]
             weight == EdgeWeight(edge)
         IN  IF edge.source \notin DOMAIN adj
             THEN [threw |-> TRUE, adjacencyList |-> adj]
             ELSE LET adj1 == [adj EXCEPT ![edge.source] =
                                 Append(@, [nodeId |-> edge.target, weight |-> weight])]
                  IN  IF edge.target \notin DOMAIN adj1
                      THEN [threw |-> TRUE, adjacencyList |-> adj1]
                      ELSE AddEdges([adj1 EXCEPT ![edge.target] =
                                       Append(@, [nodeId |-> edge.source, weight |-> weight])],
                                    es, i + 1)

\* The lists without the reverse edges: a directed graph.
RECURSIVE AddEdgesDirected(_, _, _)
AddEdgesDirected(adj, es, i) ==
    IF i > Len(es) THEN [threw |-> FALSE, adjacencyList |-> adj]
    ELSE IF es[i].source \notin DOMAIN adj \/ es[i].target \notin DOMAIN adj
    THEN [threw |-> TRUE, adjacencyList |-> adj]
    ELSE AddEdgesDirected(
             [adj EXCEPT ![es[i].source] =
                 Append(@, [nodeId |-> es[i].target, weight |-> EdgeWeight(es[i])])],
             es, i + 1)

createAdjacencyListDirected(ns, es) ==
    AddEdgesDirected([id \in NodeIds(ns) |-> <<>>], es, 1)

\* The lists of the edges that join two nodes of the list: an edge naming an
\* absent node is passed over.
createAdjacencyListSkipping(ns, es) ==
    AddEdges([id \in NodeIds(ns) |-> <<>>],
             SelectSeq(es, LAMBDA e : e.source \in NodeIds(ns) /\ e.target \in NodeIds(ns)),
             1)

createAdjacencyList(ns, es) == AddEdges([id \in NodeIds(ns) |-> <<>>], es, 1)

(***************************************************************************)
(* State.                                                                  *)
(***************************************************************************)
VARIABLES
    site,           \* the copy of the engine that serves the request
    alg,            \* the algorithm tag of the request
    nodes,          \* graph.nodes
    edges,          \* graph.edges
    startNodeId,
    targetNodeId,
    pc,             \* position of the call
    adjacencyList,
    visited,        \* BFS, DFS: Set<string>
    queue,          \* BFS
    stack,          \* DFS
    distances,      \* Dijkstra
    previous,       \* Dijkstra, A*
    unvisited,      \* Dijkstra: Set<string>
    openSet,        \* A*: Set<string>
    closedSet,      \* A*: Set<string>
    gScore,         \* A*
    fScore,         \* A*
    steps,          \* the trace
    step,           \* the next step index
    error,          \* what the call threw, Null while it has thrown nothing
    algorithmResult,    \* Home: the result held for replay, or NoResult
    currentStepIndex,   \* Home: the replay cursor
    isRunning,          \* Home
    isPaused,           \* Home
    currentVisitedNodes,    \* Home: the visited nodes shown
    currentPathNodes,       \* Home: the path nodes shown
    currentNodeId,          \* Home: the current node shown
    edits,              \* the number of changes made to the graph in the editor
    results             \* what the copies that served the request before gave

request == <<site, alg, nodes, edges, startNodeId, targetNodeId>>
\* The execution state of the Home page.
home == <<algorithmResult, currentStepIndex, isRunning, isPaused,
          currentVisitedNodes, currentPathNodes, currentNodeId>>
\* What the page shows of the step under the cursor.
shown == <<currentVisitedNodes, currentPathNodes, currentNodeId>>
vars == <<site, alg, nodes, edges, startNodeId, targetNodeId, pc, adjacencyList,
          visited, queue, stack, distances, previous, unvisited,
          openSet, closedSet, gScore, fScore, steps, step, error,
          algorithmResult, currentStepIndex, isRunning, isPaused,
          currentVisitedNodes, currentPathNodes, currentNodeId, edits, results>>

\* A test of the target that every call passes.
AlwaysHasTarget == TRUE

\* A test of the target that no call passes.
NeverHasTarget == FALSE

\* targetNodeId is truthy.
HasTarget == targetNodeId # NoTarget

\* The runner throws a TypeError (a property read or an iteration of
\* undefined): the call ends without a result.  What the local variables
\* held at the throw stays in the state.
Throw == pc' = "threw" /\ error' = "TypeError"

\* throw new Error(message)
ThrowError(message) == pc' = "threw" /\ error' = message

\* The call goes on, or returns: nothing is thrown.
Goto(label) == pc' = label /\ UNCHANGED error

(***************************************************************************)
(* executeBFS                                                              *)
(***************************************************************************)
\* The loop with steps.push after the if: a step for every neighbor it
\* looks at, discovered or not.
RECURSIVE BFSNeighborsStepEach(_, _, _, _)
BFSNeighborsStepEach(st, currentNode, nbrs, i) ==
    IF i > Len(nbrs) THEN st
    ELSE LET nodeId == nbrs[i].nodeId
             new == ~Has(st.visited, nodeId)
             v == IF new THEN SetAdd(st.visited, nodeId) ELSE st.visited
             q == IF new THEN Append(st.queue, nodeId) ELSE st.queue
         IN  BFSNeighborsStepEach(
                 [visited |-> v, queue |-> q, step |-> st.step + 1,
                  steps |-> Append(st.steps,
                      [step |-> st.step, visited |-> v, current |-> currentNode,
                       queue |-> q,
                       description |-> <<"Visiting node, discovered neighbor",
                                         currentNode, nodeId>>])],
                 currentNode, nbrs, i + 1)

\* The loop with queue.unshift(nodeId) in place of queue.push(nodeId): a
\* discovered neighbor goes to the head of the queue.
RECURSIVE BFSNeighborsUnshift(_, _, _, _)
BFSNeighborsUnshift(st, currentNode, nbrs, i) ==
    IF i > Len(nbrs) THEN st
    ELSE LET nodeId == nbrs[i].nodeId IN
         IF ~Has(st.visited, nodeId)
         THEN LET v == SetAdd(st.visited, nodeId)
                  q == <<nodeId>> \o st.queue
              IN  BFSNeighborsUnshift(
                      [visited |-> v, queue |-> q, step |-> st.step + 1,
                       steps |-> Append(st.steps,
                           [step |-> st.step, visited |-> v, current |-> currentNode,
                            queue |-> q,
                            description |-> <<"Visiting node, discovered neighbor",
                                              currentNode, nodeId>>])],
                      currentNode, nbrs, i + 1)
         ELSE BFSNeighborsUnshift(st, currentNode, nbrs, i + 1)

\* The loop whose step copies the visited set before visited.add(nodeId): the
\* step shows the neighbor in the queue and not yet in the visited set.
RECURSIVE BFSNeighborsVisitedBefore(_, _, _, _)
BFSNeighborsVisitedBefore(st, currentNode, nbrs, i) ==
    IF i > Len(nbrs) THEN st
    ELSE LET nodeId == nbrs[i].nodeId IN
         IF ~Has(st.visited, nodeId)
         THEN LET v == SetAdd(st.visited, nodeId)
                  q == Append(st.queue, nodeId)
              IN  BFSNeighborsVisitedBefore(
                      [visited |-> v, queue |-> q, step |-> st.step + 1,
                       steps |-> Append(st.steps,
                           [step |-> st.step, visited |-> st.visited,
                            current |-> currentNode, queue |-> q,
                            description |-> <<"Visiting node, discovered neighbor",
                                              currentNode, nodeId>>])],
                      currentNode, nbrs, i + 1)
         ELSE BFSNeighborsVisitedBefore(st, currentNode, nbrs, i + 1)

\* for (const { nodeId } of adjacencyList[currentNode])
RECURSIVE BFSNeighbors(_, _, _, _)
BFSNeighbors(st, currentNode, nbrs, i) ==
    IF i > Len(nbrs) THEN st
    ELSE LET nodeId == nbrs[i].nodeId IN
         IF ~Has(st.visited, nodeId)
         THEN LET v == SetAdd(st.visited, nodeId)
                  q == Append(st.queue, nodeId)
              IN  BFSNeighbors(
                      [visited |-> v, queue |-> q, step |-> st.step + 1,
                       steps |-> Append(st.steps,
                           [step |-> st.step, visited |-> v, current |-> currentNode,
                            queue |-> q,
                            description |-> <<"Visiting node, discovered neighbor",
                                              currentNode, nodeId>>])],
                      currentNode, nbrs, i + 1)
         ELSE BFSNeighbors(st, currentNode, nbrs, i + 1)

\* The prologue: lines 62-77.
BFSStart ==
    /\ pc = "called" /\ alg = "bfs"
    /\ LET r == createAdjacencyList(nodes, edges) IN
       IF r.threw
       THEN /\ Throw
            /\ UNCHANGED <<adjacencyList, visited, queue, steps, step>>
       ELSE /\ adjacencyList' = r.adjacencyList
            /\ visited' = <<startNodeId>>
            /\ queue' = <<startNodeId>>
            /\ steps' = <<[step |-> 0, visited |-> <<startNodeId>>,
                           current |-> startNodeId, queue |-> <<startNodeId>>,
                           description |-> <<"Starting BFS from node", startNodeId>>]>>
            /\ step' = 1
            /\ Goto("bfs")
    /\ UNCHANGED <<request, results, edits, home, stack, distances, previous, unvisited,
                   openSet, closedSet, gScore, fScore>>

\* One iteration of while (queue.length > 0), lines 79-119; the loop is left
\* by the break or when the queue is empty after the iteration.
BFSLoop ==
    /\ pc = "bfs"
    /\ LET currentNode == Head(queue)
           rest == Tail(queue)
       IN  IF HasTarget /\ currentNode = targetNodeId
           THEN /\ queue' = rest
                /\ steps' = Append(steps,
                       [step |-> step, visited |-> visited, current |-> currentNode,
                        queue |-> rest,
                        description |-> <<"Target node reached", targetNodeId>>])
                /\ step' = step + 1
                /\ Goto("returned")
                /\ UNCHANGED visited
           ELSE IF currentNode \notin DOMAIN adjacencyList
           THEN \* adjacencyList[currentNode] is undefined: not iterable
                /\ queue' = rest
                /\ Throw
                /\ UNCHANGED <<visited, steps, step>>
           ELSE LET st == BFSNeighbors([visited |-> visited, queue |-> rest,
                                        steps |-> steps, step |-> step],
                                       currentNode, adjacencyList[currentNode], 1)
                IN  /\ visited' = st.visited
                    /\ queue' = st.queue
                    /\ IF Len(st.queue) > 0
                       THEN /\ steps' = Append(st.steps,
                                   [step |-> st.step, visited |-> st.visited,
                                    current |-> st.queue[1], queue |-> st.queue,
                                    description |-> <<"Moving to next node in queue",
                                                      st.queue[1]>>])
                            /\ step' = st.step + 1
                            /\ Goto("bfs")
                       ELSE /\ steps' = st.steps
                            /\ step' = st.step
                            /\ Goto("returned")
    /\ UNCHANGED <<request, results, edits, home, adjacencyList, stack, distances, previous, unvisited,
                   openSet, closedSet, gScore, fScore>>

(***************************************************************************)
(* executeDFS                                                              *)
(***************************************************************************)
\* for (const { nodeId } of neighbors), neighbors the reversed list
RECURSIVE DFSNeighbors(_, _, _, _)
DFSNeighbors(st, currentNode, nbrs, i) ==
    IF i > Len(nbrs) THEN st
    ELSE LET nodeId == nbrs[i].nodeId IN
         IF ~Has(st.visited, nodeId)
         THEN LET s == Append(st.stack, nodeId)
              IN  DFSNeighbors(
                      [visited |-> st.visited, stack |-> s, step |-> st.step + 1,
                       steps |-> Append(st.steps,
                           [step |-> st.step, visited |-> st.visited,
                            current |-> currentNode, stack |-> s,
                            description |-> <<"Adding neighbor to stack", nodeId>>])],
                      currentNode, nbrs, i + 1)
         ELSE DFSNeighbors(st, currentNode, nbrs, i + 1)

\* The prologue: lines 141-155.
DFSStart ==
    /\ pc = "called" /\ alg = "dfs"
    /\ LET r == createAdjacencyList(nodes, edges) IN
       IF r.threw
       THEN /\ Throw
            /\ UNCHANGED <<adjacencyList, visited, stack, steps, step>>
       ELSE /\ adjacencyList' = r.adjacencyList
            /\ visited' = <<>>
            /\ stack' = <<startNodeId>>
            /\ steps' = <<[step |-> 0, visited |-> <<>>,
                           current |-> startNodeId, stack |-> <<startNodeId>>,
                           description |-> <<"Starting DFS from node", startNodeId>>]>>
            /\ step' = 1
            /\ Goto("dfs")
    /\ UNCHANGED <<request, results, edits, home, queue, distances, previous, unvisited,
                   openSet, closedSet, gScore, fScore>>

\* One iteration of while (stack.length > 0), lines 157-199.
DFSLoop ==
    /\ pc = "dfs"
    /\ LET currentNode == Last(stack)
           rest == SubSeq(stack, 1, Len(stack) - 1)
       IN  IF Has(visited, currentNode)
           THEN /\ stack' = rest
                /\ Goto(IF Len(rest) > 0 THEN "dfs" ELSE "returned")
                /\ UNCHANGED <<visited, steps, step>>
           ELSE LET v == SetAdd(visited, currentNode)
                    visiting == [step |-> step, visited |-> v, current |-> currentNode,
                                 stack |-> rest,
                                 description |-> <<"Visiting node", currentNode>>]
                IN  IF HasTarget /\ currentNode = targetNodeId
                    THEN /\ visited' = v
                         /\ stack' = rest
                         /\ steps' = steps \o <<visiting,
                                [step |-> step + 1, visited |-> v, current |-> currentNode,
                                 stack |-> rest,
                                 description |-> <<"Target node reached", targetNodeId>>]>>
                         /\ step' = step + 2
                         /\ Goto("returned")
                    ELSE IF currentNode \notin DOMAIN adjacencyList
                    THEN \* [...adjacencyList[currentNode]]: undefined is not iterable
                         /\ visited' = v
                         /\ stack' = rest
                         /\ steps' = Append(steps, visiting)
                         /\ step' = step + 1
                         /\ Throw
                    ELSE LET st == DFSNeighbors(
                                      [visited |-> v, stack |-> rest,
                                       steps |-> Append(steps, visiting),
                                       step |-> step + 1],
                                      currentNode,
                                      Reverse(adjacencyList[currentNode]), 1)
                         IN  /\ visited' = v
                             /\ stack' = st.stack
                             /\ steps' = st.steps
                             /\ step' = st.step
                             /\ Goto(IF Len(st.stack) > 0 THEN "dfs" ELSE "returned")
    /\ UNCHANGED <<request, results, edits, home, adjacencyList, queue, distances, previous, unvisited,
                   openSet, closedSet, gScore, fScore>>

(***************************************************************************)
(* Helpers of executeDijkstra and executeAStar                             *)
(***************************************************************************)
\* let best = null, bestKey = Infinity;
\* for (const nodeId of set) if (key[nodeId] < bestKey) { ... }
RECURSIVE MinScan(_, _, _, _, _)
MinScan(set, key, i, best, bestKey) ==
    IF i > Len(set) THEN best
    ELSE IF key[set[i]] < bestKey
         THEN MinScan(set, key, i + 1, set[i], key[set[i]])
         ELSE MinScan(set, key, i + 1, best, bestKey)

\* The scan without "shortestDistance = distances[nodeId]": the last node
\* with a finite key.
FindMinStaleBound(set, key) ==
    LET finite == {i \in DOMAIN set : key[set[i]] < Infinity}
    IN  IF finite = {} THEN Null
        ELSE set[CHOOSE i \in finite : \A j \in finite : j <= i]

\* The scan with <= in place of <: of the nodes with the smallest key the
\* last one in iteration order.
FindMinLastTie(set, key) ==
    LET finite == {i \in DOMAIN set : key[set[i]] < Infinity}
        least == {i \in finite : \A j \in finite : key[set[i]] <= key[set[j]]}
    IN  IF finite = {} THEN Null
        ELSE set[CHOOSE i \in least : \A j \in least : j <= i]

FindMin(set, key) == MinScan(set, key, 1, Null, Infinity)

\* while (current !== null) { path.unshift(current); current = previous[current]; }
\* The walk never ends when it comes back to a node it has left.
RECURSIVE WalkPath(_, _, _)
WalkPath(prev, current, path) ==
    IF current = Null THEN [diverges |-> FALSE, path |-> path]
    ELSE IF Has(path, current) THEN [diverges |-> TRUE, path |-> path]
    ELSE WalkPath(prev, prev[current], <<current>> \o path)

\* The walk with path.push in place of path.unshift: the path from the target
\* back to the start.
ConstructPathPush(prev, from) ==
    LET walk == WalkPath(prev, from, <<>>)
    IN  [diverges |-> walk.diverges, path |-> Reverse(walk.path)]

\* The walk over a predecessor map in which a node without predecessor is
\* its own predecessor (previous[id] = id at initialisation, not null).
ConstructPathOwnRoot(prev, from) ==
    WalkPath([id \in DOMAIN prev |-> IF prev[id] = Null THEN id ELSE prev[id]],
             from, <<>>)

ConstructPath(prev, from) == WalkPath(prev, from, <<>>)

\* The filter without its negation: the nodes still unvisited.
VisitedOfUnvisited(ns, unv) == SelectSeq(NodeIdSeq(ns), LAMBDA id : Has(unv, id))

\* nodes.map(n => n.id).filter(id => !unvisited.has(id))
VisitedOf(ns, unv) == SelectSeq(NodeIdSeq(ns), LAMBDA id : ~Has(unv, id))

(***************************************************************************)
(* executeDijkstra                                                         *)
(*                                                                         *)
(* The runner's local state is the record                                  *)
(*   [adjacencyList, distances, previous, unvisited, steps, step, pc];     *)
(* the prologue, one loop iteration and the epilogue are operators on it,  *)
(* and the actions apply them to the state variables.                      *)
(***************************************************************************)
\* const newDistance = distances[currentNode] + weight
NewDistance(dist, currentNode, weight) == dist[currentNode] + weight

\* The loop with "distances: distances" in place of "distances: { ...distances }":
\* every step holds the live map, so an update shows in the steps recorded
\* before it.
RECURSIVE DijkstraNeighborsLiveMap(_, _, _, _, _, _)
DijkstraNeighborsLiveMap(st, ns, unv, currentNode, nbrs, i) ==
    IF i > Len(nbrs) THEN st
    ELSE LET nodeId == nbrs[i].nodeId
             newDistance == NewDistance(st.distances, currentNode, nbrs[i].weight)
         IN  IF Has(unv, nodeId) /\ newDistance < st.distances[nodeId]
             THEN LET d == Put(st.distances, nodeId, newDistance)
                      live == [k \in DOMAIN st.steps |->
                                  [st.steps[k] EXCEPT !.distances = d]]
                  IN  DijkstraNeighborsLiveMap(
                          [distances |-> d,
                           previous |-> Put(st.previous, nodeId, currentNode),
                           step |-> st.step + 1,
                           steps |-> Append(live,
                               [step |-> st.step, visited |-> VisitedOf(ns, unv),
                                current |-> currentNode, distances |-> d,
                                description |-> <<"Updated distance to node",
                                                  nodeId, newDistance>>])],
                          ns, unv, currentNode, nbrs, i + 1)
             ELSE DijkstraNeighborsLiveMap(st, ns, unv, currentNode, nbrs, i + 1)

\* for (const { nodeId, weight } of adjacencyList[currentNode]), lines 294-311
RECURSIVE DijkstraNeighbors(_, _, _, _, _, _)
DijkstraNeighbors(st, ns, unv, currentNode, nbrs, i) ==
    IF i > Len(nbrs) THEN st
    ELSE LET nodeId == nbrs[i].nodeId
             newDistance == NewDistance(st.distances, currentNode, nbrs[i].weight)
         IN  IF Has(unv, nodeId) /\ newDistance < st.distances[nodeId]
             THEN LET d == Put(st.distances, nodeId, newDistance)
                  IN  DijkstraNeighbors(
                          [distances |-> d,
                           previous |-> Put(st.previous, nodeId, currentNode),
                           step |-> st.step + 1,
                           steps |-> Append(st.steps,
                               [step |-> st.step, visited |-> VisitedOf(ns, unv),
                                current |-> currentNode, distances |-> d,
                                description |-> <<"Updated distance to node",
                                                  nodeId, newDistance>>])],
                          ns, unv, currentNode, nbrs, i + 1)
             ELSE DijkstraNeighbors(st, ns, unv, currentNode, nbrs, i + 1)

\* The prologue: lines 221-248.
DijkstraPrologue(ns, es, start) ==
    LET r == createAdjacencyList(ns, es)
        d == Put([id \in NodeIds(ns) |-> Infinity], start, 0)
    IN  IF r.threw
        THEN [pc |-> "threw", adjacencyList |-> <<>>, distances |-> <<>>,
              previous |-> <<>>, unvisited |-> <<>>, steps |-> <<>>, step |-> 0]
        ELSE [pc |-> IF Len(ns) > 0 THEN "dijkstra" ELSE "dijkstraEnd",
              adjacencyList |-> r.adjacencyList,
              distances |-> d,
              previous |-> [id \in NodeIds(ns) |-> Null],
              unvisited |-> NodeIdSeq(ns),
              steps |-> <<[step |-> 0, visited |-> <<>>, current |-> start,
                           distances |-> d,
                           description |-> <<"Starting Dijkstra's algorithm from node",
                                             start>>]>>,
              step |-> 1]

\* One iteration of while (unvisited.size > 0), lines 251-333.
DijkstraIteration(s, ns, target) ==
    LET currentNode == FindMin(s.unvisited, s.distances) IN
    IF currentNode = Null
    THEN \* break: every remaining node is at distance Infinity
         [s EXCEPT !.pc = "dijkstraEnd"]
    ELSE IF target # NoTarget /\ currentNode = target
    THEN LET unv == SetDelete(s.unvisited, currentNode)
             walk == ConstructPath(s.previous, currentNode)
         IN  IF walk.diverges
             THEN [s EXCEPT !.unvisited = unv, !.pc = "diverged"]
             ELSE [s EXCEPT !.unvisited = unv, !.pc = "dijkstraEnd",
                            !.step = s.step + 1,
                            !.steps = Append(s.steps,
                                [step |-> s.step, visited |-> VisitedOf(ns, unv),
                                 current |-> currentNode, distances |-> s.distances,
                                 path |-> walk.path,
                                 description |-> <<"Target node reached with shortest distance",
                                                   target, s.distances[currentNode]>>])]
    ELSE LET unv == SetDelete(s.unvisited, currentNode)
             st == DijkstraNeighbors(
                       [distances |-> s.distances, previous |-> s.previous,
                        steps |-> s.steps, step |-> s.step],
                       ns, unv, currentNode, s.adjacencyList[currentNode], 1)
             nextNode == FindMin(unv, st.distances)
             moved == nextNode # Null
         IN  [s EXCEPT !.unvisited = unv,
                       !.distances = st.distances,
                       !.previous = st.previous,
                       !.steps = IF moved
                                 THEN Append(st.steps,
                                     [step |-> st.step, visited |-> VisitedOf(ns, unv),
                                      current |-> nextNode, distances |-> st.distances,
                                      description |-> <<"Moving to node with current distance",
                                                        nextNode, st.distances[nextNode]>>])
                                 ELSE st.steps,
                       !.step = IF moved THEN st.step + 1 ELSE st.step,
                       !.pc = IF Len(unv) > 0 THEN "dijkstra" ELSE "dijkstraEnd"]

\* After the loop: lines 335-368.
DijkstraEpilogue(s, ns, target) ==
    IF target # NoTarget /\ target \in DOMAIN s.previous
    THEN LET walk == ConstructPath(s.previous, target) IN
         IF walk.diverges
         THEN [s EXCEPT !.pc = "diverged"]
         ELSE IF "path" \notin DOMAIN Last(s.steps)
         THEN [s EXCEPT !.pc = "returned", !.step = s.step + 1,
                        !.steps = Append(s.steps,
                            [step |-> s.step, visited |-> VisitedOf(ns, s.unvisited),
                             current |-> target, distances |-> s.distances,
                             path |-> walk.path,
                             description |-> <<"Final shortest path to",
                                               target, walk.path>>])]
         ELSE [s EXCEPT !.pc = "returned"]
    ELSE [s EXCEPT !.pc = "returned"]

RECURSIVE DijkstraRun(_, _, _)
DijkstraRun(s, ns, target) ==
    IF s.pc = "dijkstra" THEN DijkstraRun(DijkstraIteration(s, ns, target), ns, target)
    ELSE IF s.pc = "dijkstraEnd" THEN DijkstraEpilogue(s, ns, target)
    ELSE s

\* The whole call: the local state when it returns (pc = "returned") or
\* throws.
executeDijkstra(ns, es, start, target) ==
    DijkstraRun(DijkstraPrologue(ns, es, start), ns, target)

DijkstraState ==
    [pc |-> pc, adjacencyList |-> adjacencyList, distances |-> distances,
     previous |-> previous, unvisited |-> unvisited, steps |-> steps, step |-> step]

DijkstraAssign(s) ==
    /\ pc' = s.pc
    /\ error' = (IF s.pc = "threw" THEN "TypeError" ELSE error)
    /\ adjacencyList' = s.adjacencyList
    /\ distances' = s.distances
    /\ previous' = s.previous
    /\ unvisited' = s.unvisited
    /\ steps' = s.steps
    /\ step' = s.step
    /\ UNCHANGED <<request, results, edits, home, visited, queue, stack, openSet, closedSet, gScore, fScore>>

DijkstraStart ==
    /\ pc = "called" /\ alg = "dijkstra"
    /\ DijkstraAssign(DijkstraPrologue(nodes, edges, startNodeId))

DijkstraLoop ==
    /\ pc = "dijkstra"
    /\ DijkstraAssign(DijkstraIteration(DijkstraState, nodes, targetNodeId))

DijkstraEnd ==
    /\ pc = "dijkstraEnd"
    /\ DijkstraAssign(DijkstraEpilogue(DijkstraState, nodes, targetNodeId))

(***************************************************************************)
(* executeAStar                                                            *)
(***************************************************************************)
\* nodes.forEach(node => { nodeMap[node.id] = node; })
nodeMap(ns) ==
    [id \in NodeIds(ns) |->
        ns[CHOOSE i \in DOMAIN ns :
              ns[i].id = id /\ \A j \in DOMAIN ns : ns[j].id = id => j <= i]]

\* !node.x is true of an absent coordinate and of the coordinate 0.
Falsy(node, coord) == coord \notin DOMAIN node \/ node[coord] = 0

Abs(n) == IF n < 0 THEN 0 - n ELSE n

\* getHeuristic, lines 409-420.  Reading .x of an undefined node is a TypeError;
\* the || chain reads target.x only after node.x and node.y were truthy.
getHeuristic(nm, nodeId, target) ==
    IF nodeId \notin DOMAIN nm THEN [threw |-> TRUE, value |-> 0]
    ELSE LET node == nm[nodeId] IN
         IF Falsy(node, "x") \/ Falsy(node, "y") THEN [threw |-> FALSE, value |-> 1]
         ELSE IF target \notin DOMAIN nm THEN [threw |-> TRUE, value |-> 0]
         ELSE LET t == nm[target] IN
              IF Falsy(t, "x") \/ Falsy(t, "y") THEN [threw |-> FALSE, value |-> 1]
              ELSE [threw |-> FALSE,
                    value |-> Abs(node.x - t.x) + Abs(node.y - t.y)]

\* for (const { nodeId, weight } of adjacencyList[currentNode]), lines 479-507
RECURSIVE AStarNeighbors(_, _, _, _, _, _, _)
AStarNeighbors(st, nm, target, closed, currentNode, nbrs, i) ==
    IF i > Len(nbrs) \/ st.threw THEN st
    ELSE LET nodeId == nbrs[i].nodeId
             tentativeGScore == st.gScore[currentNode] + nbrs[i].weight
         IN  IF Has(closed, nodeId)
             THEN AStarNeighbors(st, nm, target, closed, currentNode, nbrs, i + 1)
             ELSE IF Has(st.openSet, nodeId) /\ tentativeGScore >= st.gScore[nodeId]
             THEN AStarNeighbors(st, nm, target, closed, currentNode, nbrs, i + 1)
             ELSE LET open == SetAdd(st.openSet, nodeId)
                      prev == Put(st.previous, nodeId, currentNode)
                      g == Put(st.gScore, nodeId, tentativeGScore)
                      h == getHeuristic(nm, nodeId, target)
                  IN  IF h.threw
                      THEN [st EXCEPT !.openSet = open, !.previous = prev,
                                      !.gScore = g, !.threw = TRUE]
                      ELSE LET f == Put(st.fScore, nodeId, tentativeGScore + h.value)
                           IN  AStarNeighbors(
                                   [openSet |-> open, previous |-> prev, gScore |-> g,
                                    fScore |-> f, threw |-> FALSE, step |-> st.step + 1,
                                    steps |-> Append(st.steps,
                                        [step |-> st.step, visited |-> closed,
                                         current |-> currentNode, distances |-> g,
                                         description |-> <<"Updated node with g-score, f-score",
                                                           nodeId, tentativeGScore,
                                                           f[nodeId]>>])],
                                   nm, target, closed, currentNode, nbrs, i + 1)

\* The prologue: lines 377-435.
AStarStart ==
    /\ pc = "called" /\ alg = "astar"
    /\ IF site \in Servers /\ createAdjacencyList(nodes, edges).threw
       THEN \* executeAlgorithm builds the lists before it calls the runner
            /\ Throw
            /\ UNCHANGED <<adjacencyList, previous, openSet, closedSet, gScore, fScore,
                           steps, step>>
       ELSE IF ~HasTarget
       THEN /\ ThrowError(MissingTarget)
            /\ UNCHANGED <<adjacencyList, previous, openSet, closedSet, gScore, fScore,
                           steps, step>>
       ELSE LET r == createAdjacencyList(nodes, edges) IN
            IF r.threw
            THEN /\ Throw
                 /\ UNCHANGED <<adjacencyList, previous, openSet, closedSet, gScore,
                                fScore, steps, step>>
            ELSE LET g == Put([id \in NodeIds(nodes) |-> Infinity], startNodeId, 0)
                     h == getHeuristic(nodeMap(nodes), startNodeId, targetNodeId)
                 IN  /\ adjacencyList' = r.adjacencyList
                     /\ openSet' = <<startNodeId>>
                     /\ closedSet' = <<>>
                     /\ gScore' = g
                     /\ previous' = [id \in NodeIds(nodes) |-> Null]
                     /\ IF h.threw
                        THEN /\ fScore' = [id \in NodeIds(nodes) |-> Infinity]
                             /\ Throw
                             /\ UNCHANGED <<steps, step>>
                        ELSE /\ fScore' = Put([id \in NodeIds(nodes) |-> Infinity],
                                              startNodeId, h.value)
                             /\ steps' = <<[step |-> 0, visited |-> <<>>,
                                            current |-> startNodeId, distances |-> g,
                                            description |-> <<"Starting A* search from node to target",
                                                              startNodeId, targetNodeId>>]>>
                             /\ step' = 1
                             /\ Goto("astar")
    /\ UNCHANGED <<request, results, edits, home, visited, queue, stack, distances, unvisited>>

\* One iteration of while (openSet.size > 0), lines 438-529.
AStarLoop ==
    /\ pc = "astar"
    /\ LET currentNode == FindMin(openSet, fScore) IN
       IF currentNode = Null
       THEN /\ Goto("astarEnd")
            /\ UNCHANGED <<previous, openSet, closedSet, gScore, fScore, steps, step>>
       ELSE IF currentNode = targetNodeId
       THEN LET walk == ConstructPath(previous, currentNode) IN
            /\ IF walk.diverges
               THEN /\ Goto("diverged")
                    /\ UNCHANGED <<steps, step>>
               ELSE /\ steps' = Append(steps,
                           [step |-> step, visited |-> closedSet,
                            current |-> currentNode, distances |-> gScore,
                            path |-> walk.path,
                            description |-> <<"Target node reached! Path found with cost",
                                              targetNodeId, gScore[currentNode]>>])
                    /\ step' = step + 1
                    /\ Goto("astarEnd")
            /\ UNCHANGED <<previous, openSet, closedSet, gScore, fScore>>
       ELSE LET closed == SetAdd(closedSet, currentNode)
                st == AStarNeighbors(
                          [openSet |-> SetDelete(openSet, currentNode),
                           previous |-> previous, gScore |-> gScore, fScore |-> fScore,
                           threw |-> FALSE, steps |-> steps, step |-> step],
                          nodeMap(nodes), targetNodeId, closed, currentNode,
                          adjacencyList[currentNode], 1)
                nextNode == FindMin(st.openSet, st.fScore)
            IN  /\ closedSet' = closed
                /\ openSet' = st.openSet
                /\ previous' = st.previous
                /\ gScore' = st.gScore
                /\ fScore' = st.fScore
                /\ IF st.threw
                   THEN /\ steps' = st.steps
                        /\ step' = st.step
                        /\ Throw
                   ELSE /\ IF nextNode # Null
                           THEN /\ steps' = Append(st.steps,
                                       [step |-> st.step, visited |-> closed,
                                        current |-> nextNode, distances |-> st.gScore,
                                        description |-> <<"Moving to node with f-score",
                                                          nextNode, st.fScore[nextNode]>>])
                                /\ step' = st.step + 1
                           ELSE /\ steps' = st.steps
                                /\ step' = st.step
                        /\ Goto(IF Len(st.openSet) > 0 THEN "astar" ELSE "astarEnd")
    /\ UNCHANGED <<request, results, edits, home, adjacencyList, visited, queue, stack, distances, unvisited>>

\* The current node of the step "No path found": null in the client module
\* and in MemStorage, undefined in DatabaseStorage.
NoCurrent(copy) == IF copy = "DatabaseStorage" THEN Undefined ELSE Null

\* After the loop: lines 531-553.
AStarEnd ==
    /\ pc = "astarEnd"
    /\ IF ~Has(closedSet, targetNodeId)
       THEN /\ steps' = Append(steps,
                   [step |-> step, visited |-> closedSet,
                    current |-> NoCurrent(site), distances |-> gScore,
                    description |-> <<"No path found from to", startNodeId, targetNodeId>>])
            /\ step' = step + 1
       ELSE UNCHANGED <<steps, step>>
    /\ Goto("returned")
    /\ UNCHANGED <<request, results, edits, home, adjacencyList, visited, queue, stack, distances, previous,
                   unvisited, openSet, closedSet, gScore, fScore>>

(***************************************************************************)
(* The switch on the algorithm tag.  The cases of the four tags are the    *)
(* prologues above (BFSStart, DFSStart, DijkstraStart, AStarStart); these  *)
(* are the default cases.                                                  *)
(***************************************************************************)
runnerLocals == <<adjacencyList, visited, queue, stack, distances, previous,
                  unvisited, openSet, closedSet, gScore, fScore, steps, step>>

\* The switch without its default case: result stays undefined and
\* "result.executionTime = ..." is a TypeError.
executeMutationNoDefault ==
    /\ pc = "called" /\ site = "client" /\ alg \notin Algorithms
    /\ Throw
    /\ UNCHANGED <<request, results, edits, home, runnerLocals>>

\* Home, executeMutation.mutationFn: default: throw new Error(`Unknown algorithm: ...`)
executeMutationDefault ==
    /\ pc = "called" /\ site = "client" /\ alg \notin Algorithms
    /\ ThrowError(UnknownAlgorithm)
    /\ UNCHANGED <<request, results, edits, home, runnerLocals>>

\* MemStorage and DatabaseStorage, executeAlgorithm: createAdjacencyList runs
\* before the switch; default: throw new Error(`Unsupported algorithm: ...`)
executeAlgorithmDefault ==
    /\ pc = "called" /\ site \in Servers /\ alg \notin Algorithms
    /\ LET r == createAdjacencyList(nodes, edges) IN
       IF r.threw
       THEN Throw /\ UNCHANGED adjacencyList
       ELSE ThrowError(UnsupportedAlgorithm) /\ adjacencyList' = r.adjacencyList
    /\ UNCHANGED <<request, results, edits, home, visited, queue, stack, distances, previous,
                   unvisited, openSet, closedSet, gScore, fScore, steps, step>>

(***************************************************************************)
(* The Home page: the replay of a result.                                  *)
(*                                                                         *)
(* algorithmResult is the result held (its tag and its steps) or NoResult, *)
(* currentStepIndex the 0-based cursor into its steps.  pc = "idle" when   *)
(* no call is in progress.  mutate, the runner and onSuccess or onError    *)
(* run without an event of the page in between, so the handlers of the     *)
(* page are enabled at pc = "idle" only.                                   *)
(***************************************************************************)
\* algorithmResult undefined: no steps to read.
NoResult == [algorithm |-> "undefined"]

\* The test against steps.length in place of steps.length - 1.
AtLastStepBeyond(result, index) == index >= Len(result.steps)

\* currentStepIndex >= algorithmResult.steps.length - 1
AtLastStep(result, index) == index >= Len(result.steps) - 1

\* updateVisualizationForStep, lines 296-300, with a step that shows no
\* current node: setCurrentNodeId is not called.
updateVisualizationKeepCurrent(s) ==
    [visited |-> s.visited,
     path |-> IF "path" \in DOMAIN s THEN s.path ELSE <<>>,
     current |-> currentNodeId]

\* updateVisualizationForStep, lines 296-300: step.visited || [],
\* step.path || [], step.current.
updateVisualizationForStep(s) ==
    [visited |-> s.visited,
     path |-> IF "path" \in DOMAIN s THEN s.path ELSE <<>>,
     current |-> s.current]

\* The three setters of updateVisualizationForStep.
Show(view) ==
    /\ currentVisitedNodes' = view.visited
    /\ currentPathNodes' = view.path
    /\ currentNodeId' = view.current

\* startExecution, lines 303-336: refuses to run without a start node,
\* refuses dijkstra and astar without a target, resumes a paused replay, or
\* else starts a new run.
startExecution ==
    /\ pc = "idle"
    /\ IF startNodeId = Null
       THEN UNCHANGED <<pc, error, home, runnerLocals>>
       ELSE IF alg \in {"dijkstra", "astar"} /\ ~HasTarget
       THEN UNCHANGED <<pc, error, home, runnerLocals>>
       ELSE IF isPaused /\ algorithmResult # NoResult
       THEN /\ isPaused' = FALSE
            /\ isRunning' = TRUE
            /\ UNCHANGED <<pc, error, algorithmResult, currentStepIndex, shown,
                           runnerLocals>>
       ELSE /\ isRunning' = TRUE
            /\ isPaused' = FALSE
            /\ pc' = "called"
            /\ error' = Null
            /\ adjacencyList' = <<>>
            /\ visited' = <<>> /\ queue' = <<>> /\ stack' = <<>>
            /\ distances' = <<>> /\ previous' = <<>> /\ unvisited' = <<>>
            /\ openSet' = <<>> /\ closedSet' = <<>> /\ gScore' = <<>> /\ fScore' = <<>>
            /\ steps' = <<>> /\ step' = 0
            /\ UNCHANGED <<algorithmResult, currentStepIndex, shown>>
    /\ UNCHANGED <<request, results, edits>>

\* executeMutation.onSuccess, lines 252-261
onSuccess ==
    /\ pc = "returned" /\ site = "client"
    /\ algorithmResult' = [algorithm |-> alg, steps |-> steps]
    /\ currentStepIndex' = 0
    /\ Show(updateVisualizationForStep(steps[1]))
    /\ isRunning' = (IF ~isPaused THEN TRUE ELSE isRunning)
    /\ pc' = "idle"
    /\ UNCHANGED <<request, results, edits, runnerLocals, error, isPaused>>

\* executeMutation.onError, lines 262-270
onError ==
    /\ pc = "threw" /\ site = "client"
    /\ isRunning' = FALSE
    /\ isPaused' = FALSE
    /\ pc' = "idle"
    /\ UNCHANGED <<request, results, edits, runnerLocals, error, algorithmResult,
                   currentStepIndex, shown>>

\* A tick of the animation interval, lines 274-293; the interval exists while
\* isRunning, a result is held and the replay is not paused.
animationTick ==
    /\ pc = "idle"
    /\ isRunning /\ algorithmResult # NoResult /\ ~isPaused
    /\ LET nextIndex == currentStepIndex + 1 IN
       IF nextIndex >= Len(algorithmResult.steps)
       THEN /\ isRunning' = FALSE
            /\ UNCHANGED <<currentStepIndex, shown>>
       ELSE /\ currentStepIndex' = nextIndex
            /\ Show(updateVisualizationForStep(algorithmResult.steps[nextIndex + 1]))
            /\ UNCHANGED isRunning
    /\ UNCHANGED <<request, results, edits, runnerLocals, pc, error, algorithmResult,
                   isPaused>>

\* lines 338-340
pauseExecution ==
    /\ pc = "idle"
    /\ isPaused' = TRUE
    /\ UNCHANGED <<request, results, edits, runnerLocals, pc, error, algorithmResult,
                   currentStepIndex, isRunning, shown>>

\* lines 342-350
stopExecution ==
    /\ pc = "idle"
    /\ isRunning' = FALSE
    /\ isPaused' = FALSE
    /\ currentStepIndex' = -1
    /\ currentVisitedNodes' = <<>>
    /\ currentPathNodes' = <<>>
    /\ currentNodeId' = Undefined
    /\ algorithmResult' = NoResult
    /\ UNCHANGED <<request, results, edits, runnerLocals, pc, error>>

\* lines 352-358
stepBackward ==
    /\ pc = "idle"
    /\ IF algorithmResult = NoResult \/ currentStepIndex <= 0
       THEN UNCHANGED <<currentStepIndex, shown>>
       ELSE /\ currentStepIndex' = currentStepIndex - 1
            /\ Show(updateVisualizationForStep(
                       algorithmResult.steps[currentStepIndex]))
    /\ UNCHANGED <<request, results, edits, runnerLocals, pc, error, algorithmResult,
                   isRunning, isPaused>>

\* lines 360-366.  setCurrentStepIndex is called before
\* updateVisualizationForStep: were steps[newIndex] undefined, the read of
\* step.visited would throw before any setter of the display is reached.
stepForward ==
    /\ pc = "idle"
    /\ IF algorithmResult = NoResult \/ AtLastStep(algorithmResult, currentStepIndex)
       THEN UNCHANGED <<currentStepIndex, shown>>
       ELSE /\ currentStepIndex' = currentStepIndex + 1
            /\ IF currentStepIndex + 2 \in DOMAIN algorithmResult.steps
               THEN Show(updateVisualizationForStep(
                            algorithmResult.steps[currentStepIndex + 2]))
               ELSE UNCHANGED shown
    /\ UNCHANGED <<request, results, edits, runnerLocals, pc, error, algorithmResult,
                   isRunning, isPaused>>

(***************************************************************************)
(* The graph editor (GraphCanvas) and the selection of the start and the   *)
(* target node on the Home page.  The editor changes the graph while no    *)
(* replay is running or paused; the Home page picks a default start and    *)
(* target node after every change.  Of a node the model keeps id, x and y, *)
(* of an edge source, target and weight: the engine reads nothing else.    *)
(***************************************************************************)
MaxEdits == 1

\* generateId: the identifiers it gives to the nodes made in the editor, each
\* one new.
NewIds == <<"F", "G", "H", "I">>
generateId(k) == NewIds[k + 1]

createNode(id, x, y) == [id |-> id, x |-> x, y |-> y]
createEdge(sourceId, targetId, weight) ==
    [source |-> sourceId, target |-> targetId, weight |-> weight]

hasEdge(es, sourceId, targetId) ==
    \E i \in DOMAIN es :
        \/ es[i].source = sourceId /\ es[i].target = targetId
        \/ es[i].source = targetId /\ es[i].target = sourceId

addNode(ns, node) == Append(ns, node)
addEdge(es, edge) ==
    IF hasEdge(es, edge.source, edge.target) THEN es ELSE Append(es, edge)
removeNodeNodes(ns, nodeId) == SelectSeq(ns, LAMBDA n : n.id # nodeId)
removeNodeEdges(es, nodeId) ==
    SelectSeq(es, LAMBDA e : e.source # nodeId /\ e.target # nodeId)
\* removeEdge of the edge at index i (the editor's graphs have one edge for
\* a pair of nodes at most, so its id names it)
removeEdge(es, i) == [k \in 1..(Len(es) - 1) |-> IF k < i THEN es[k] ELSE es[k + 1]]

\* createSampleGraph
SampleNodes ==
    <<createNode(Ids[1], 150, 100), createNode(Ids[2], 250, 200),
      createNode(Ids[3], 350, 100), createNode(Ids[4], 350, 300),
      createNode(Ids[5], 150, 300)>>
SampleEdges ==
    <<createEdge(Ids[1], Ids[2], 1), createEdge(Ids[2], Ids[3], 1),
      createEdge(Ids[2], Ids[4], 1), createEdge(Ids[4], Ids[5], 1),
      createEdge(Ids[5], Ids[1], 1)>>

\* The effect of lines 128-137: the first node is the start node when none
\* is selected, the last node the target when none is selected.
DefaultStart(ns, start) ==
    IF Len(ns) > 0 /\ start = Null THEN ns[1].id ELSE start
DefaultTarget(ns, target) ==
    IF Len(ns) > 1 /\ target = NoTarget THEN ns[Len(ns)].id ELSE target

\* isExecuting = isRunning || isPaused disables the editor.
Editable == pc = "idle" /\ ~(isRunning \/ isPaused) /\ edits < MaxEdits

\* onGraphChange = setGraph, followed by the effect.
setGraph(ns, es) ==
    /\ nodes' = ns
    /\ edges' = es
    /\ startNodeId' = DefaultStart(ns, startNodeId)
    /\ targetNodeId' = DefaultTarget(ns, targetNodeId)
    /\ edits' = edits + 1
    /\ UNCHANGED <<site, alg, pc, error, runnerLocals, home, results>>

\* addNewNode, lines 158-187: at the centre, or near a random node (here: at
\* that node's place, the random offset being 0) when it has coordinates.
addNewNode ==
    /\ Editable
    /\ IF Len(nodes) > 0
       THEN \E r \in DOMAIN nodes :
               setGraph(addNode(nodes,
                            IF ~Falsy(nodes[r], "x") /\ ~Falsy(nodes[r], "y")
                            THEN createNode(generateId(edits), nodes[r].x, nodes[r].y)
                            ELSE createNode(generateId(edits), 400, 300)),
                        edges)
       ELSE setGraph(addNode(nodes, createNode(generateId(edits), 400, 300)), edges)

\* handleNodeClick in the mode addNode, lines 67-79: a node near the clicked
\* one.
handleNodeClickAddNode ==
    /\ Editable
    /\ \E c \in DOMAIN nodes :
          setGraph(addNode(nodes, createNode(generateId(edits), nodes[c].x, nodes[c].y)),
                   edges)

\* handleNodeClick in the mode addEdge, lines 80-105: the click on the second
\* node, the first click having set sourceNode to a node of the graph.
handleNodeClickAddEdge ==
    /\ Editable
    /\ \E sourceNode, node \in NodeIds(nodes) :
          /\ sourceNode # node
          /\ ~hasEdge(edges, sourceNode, node)
          /\ setGraph(nodes, addEdge(edges, createEdge(sourceNode, node, 1)))

\* handleNodeClick in the mode delete, lines 106-113
handleNodeClickDelete ==
    /\ Editable
    /\ \E node \in NodeIds(nodes) :
          setGraph(removeNodeNodes(nodes, node), removeNodeEdges(edges, node))

\* handleLinkClick, lines 118-134
handleLinkClick ==
    /\ Editable
    /\ \E i \in DOMAIN edges : setGraph(nodes, removeEdge(edges, i))

\* clearGraph, lines 190-207, confirmed
clearGraph ==
    /\ Editable
    /\ setGraph(<<>>, <<>>)

\* AlgorithmSelector, onStartNodeChange = setStartNodeId: a node of the list
\* it is given (nodes = graph.nodes); disabled while isRunning.
onStartNodeChange ==
    /\ pc = "idle" /\ ~isRunning
    /\ \E id \in NodeIds(nodes) :
          /\ startNodeId' = id
          /\ targetNodeId' = DefaultTarget(nodes, targetNodeId)
    /\ UNCHANGED <<site, alg, nodes, edges, pc, error, runnerLocals, home, results, edits>>

\* AlgorithmSelector, onTargetNodeChange = setTargetNodeId
onTargetNodeChange ==
    /\ pc = "idle" /\ ~isRunning
    /\ \E id \in NodeIds(nodes) :
          /\ targetNodeId' = id
          /\ startNodeId' = DefaultStart(nodes, startNodeId)
    /\ UNCHANGED <<site, alg, nodes, edges, pc, error, runnerLocals, home, results, edits>>

(***************************************************************************)
(* The calls the model makes.                                              *)
(***************************************************************************)
\* A node without coordinates, and a node at (x, y).
Node(id) == [id |-> id]
NodeAt(id, x, y) == [id |-> id, x |-> x, y |-> y]

\* The first n identifiers, without coordinates.
PlainNodes(n) == [i \in 1..n |-> Node(Ids[i])]

\* The first n identifiers on the line y = 1, node i at x = xs[i].
LineNodes(n, xs) == [i \in 1..n |-> NodeAt(Ids[i], xs[i], 1)]

Edge(i, j, w) == [source |-> Ids[i], target |-> Ids[j], weight |-> w]

\* An edge between the i-th and the j-th node, i <= j.  (createAdjacencyList
\* pushes on both lists, so listing an edge as (j, i) gives the same lists.)
EdgeChoices(n) ==
    {Edge(p[1], p[2], w) :
        p \in {q \in (1..n) \X (1..n) : q[1] <= q[2]}, w \in 1..MaxWeight}

EdgeLists(n) == UNION {[1..k -> EdgeChoices(n)] : k \in 0..MaxEdges}

\* No runner has run.
NoLocals ==
    /\ adjacencyList = <<>>
    /\ visited = <<>> /\ queue = <<>> /\ stack = <<>>
    /\ distances = <<>> /\ previous = <<>> /\ unvisited = <<>>
    /\ openSet = <<>> /\ closedSet = <<>> /\ gScore = <<>> /\ fScore = <<>>
    /\ steps = <<>> /\ step = 0
    /\ error = Null

\* The Home page as it is mounted: lines 118-121.
HomeInit ==
    /\ isRunning = FALSE
    /\ isPaused = FALSE
    /\ currentStepIndex = -1
    /\ algorithmResult = NoResult
    /\ currentVisitedNodes = <<>>
    /\ currentPathNodes = <<>>
    /\ currentNodeId = Undefined

\* A call has been made and has not begun.
Idle ==
    /\ pc = "called"
    /\ NoLocals
    /\ HomeInit
    /\ results = <<>>
    /\ edits = 0

\* Every edge list of at most MaxEdges edges (self-loops and parallel edges
\* included) on at most MaxNodes nodes, every runner, every start and target,
\* in the node list or not.  Only executeAStar reads coordinates.
InitEdgeLists ==
    \E n \in 1..MaxNodes :
        /\ site = "client"
        /\ edges \in EdgeLists(n)
        /\ \/ /\ alg \in {"bfs", "dfs", "dijkstra"}
              /\ nodes = PlainNodes(n)
           \/ /\ alg = "astar"
              /\ nodes \in {PlainNodes(n), LineNodes(n, [i \in 1..n |-> i])}
        /\ startNodeId \in NodeIds(nodes) \cup {Unknown}
        /\ targetNodeId \in NodeIds(nodes) \cup {Unknown, NoTarget}

\* The simple graphs on four nodes: each pair of nodes is joined by no edge,
\* by a light edge or by a heavy edge; the edge list is in lexicographic
\* order or in the reverse order.
SimplePairs == <<<<1, 2>>, <<1, 3>>, <<1, 4>>, <<2, 3>>, <<2, 4>>, <<3, 4>>>>
SimpleSize ==
    Cardinality(UNION {{SimplePairs[k][1], SimplePairs[k][2]} : k \in DOMAIN SimplePairs})
\* No edge, a light edge, a heavy edge (a detour over two light edges is
\* shorter, one over three is as long).
SimpleWeights == {1, 3}

SimpleEdges(w) ==
    LET all == [k \in DOMAIN SimplePairs |->
                   Edge(SimplePairs[k][1], SimplePairs[k][2], w[k])]
    IN  SelectSeq(all, LAMBDA e : e.weight # 0)

InitSimpleGraphs ==
    /\ site = "client"
    /\ \/ /\ alg \in {"bfs", "dfs"}     \* these two never read a weight
          /\ \E w \in [DOMAIN SimplePairs -> {0, 1}] :
                edges \in {SimpleEdges(w), Reverse(SimpleEdges(w))}
          /\ nodes = PlainNodes(SimpleSize)
          /\ startNodeId \in NodeIds(nodes)
          /\ targetNodeId \in NodeIds(nodes) \cup {NoTarget}
       \/ /\ alg = "dijkstra"
          /\ \E w \in [DOMAIN SimplePairs -> {0} \cup SimpleWeights] :
                edges \in {SimpleEdges(w), Reverse(SimpleEdges(w))}
          /\ nodes = PlainNodes(SimpleSize)
          /\ startNodeId \in NodeIds(nodes)
          /\ targetNodeId \in NodeIds(nodes) \cup {NoTarget}
       \/ /\ alg = "astar"
          /\ \E w \in [DOMAIN SimplePairs -> {0} \cup SimpleWeights] :
                edges = SimpleEdges(w)
          /\ nodes \in {LineNodes(SimpleSize, xs) :
                           xs \in [1..SimpleSize -> {1, MaxCoord}]}
          /\ startNodeId = Ids[1]
          /\ targetNodeId = Ids[SimpleSize]

\* The scenario graph of the specification: the unit-weight cycle A-B-C-D-E-A.
CycleNodes == PlainNodes(Len(Ids))
CycleEdges == [i \in 1..Len(Ids) |->
                 [source |-> Ids[i], target |-> Ids[(i % Len(Ids)) + 1], weight |-> 1]]

InitCycle ==
    /\ site = "client"
    /\ alg \in Algorithms
    /\ nodes = CycleNodes
    /\ edges = CycleEdges
    /\ startNodeId \in NodeIds(nodes)
    /\ targetNodeId \in NodeIds(nodes) \cup {NoTarget}

\* The cycle with its node list in the reverse order E, D, C, B, A: the
\* order of the node list is not the order of the identifiers.
InitReversed ==
    /\ site = "client"
    /\ alg \in Algorithms
    /\ nodes = Reverse(CycleNodes)
    /\ edges = CycleEdges
    /\ startNodeId \in NodeIds(nodes)
    /\ targetNodeId \in NodeIds(nodes) \cup {NoTarget}

\* A graph with self-loops and parallel edges: A-A, A-B twice, A-C, B-C, C-C.
MultigraphEdges ==
    <<Edge(1, 1, 1), Edge(1, 2, 1), Edge(1, 2, 1), Edge(1, 3, 1), Edge(2, 3, 1),
      Edge(3, 3, 1)>>

InitMultigraph ==
    /\ site = "client"
    /\ alg \in Algorithms
    /\ nodes = PlainNodes(3)
    /\ edges = MultigraphEdges
    /\ startNodeId \in NodeIds(nodes)
    /\ targetNodeId \in NodeIds(nodes) \cup {NoTarget}

\* A node with both coordinates, with one of them or with none, each
\* coordinate from 0 to MaxCoord.
Places(id) ==
    {Node(id)}
    \cup {[id |-> id, x |-> x] : x \in 0..MaxCoord}
    \cup {[id |-> id, y |-> y] : y \in 0..MaxCoord}
    \cup {NodeAt(id, x, y) : x \in 0..MaxCoord, y \in 0..MaxCoord}

\* executeAStar from the first to the second of two joined nodes, placed
\* anywhere.
InitCoordinates ==
    /\ site \in Sites
    /\ alg = "astar"
    /\ \E a \in Places(Ids[1]), b \in Places(Ids[2]) : nodes = <<a, b>>
    /\ edges = <<Edge(1, 2, 1)>>
    /\ startNodeId = Ids[1]
    /\ targetNodeId = Ids[2]

\* Two nodes and one edge whose weight is absent or 0, or whose source or
\* target is the id of no node.
QuirkEdges ==
    {[source |-> Ids[1], target |-> Ids[2]],
     [source |-> Ids[1], target |-> Ids[2], weight |-> 0],
     [source |-> Ids[1], target |-> Unknown, weight |-> 1],
     [source |-> Unknown, target |-> Ids[2], weight |-> 1]}

\* Such an edge alone, or after an edge between the two nodes.
QuirkEdgeLists ==
    {<<e>> : e \in QuirkEdges} \cup {<<Edge(1, 2, 1), e>> : e \in QuirkEdges}

\* The requests of the client page and of the server, with a tag of the
\* switch or with another tag.
InitQuirks ==
    /\ site \in Sites
    /\ alg \in Algorithms \cup {Unsupported}
    /\ nodes \in {PlainNodes(2), LineNodes(2, <<1, 2>>)}
    /\ edges \in QuirkEdgeLists
    /\ startNodeId \in NodeIds(nodes)
    /\ targetNodeId \in NodeIds(nodes) \cup {NoTarget}

Init ==
    /\ Idle
    /\ \/ InitEdgeLists
       \/ InitSimpleGraphs
       \/ InitCycle
       \/ InitReversed
       \/ InitMultigraph
       \/ InitCoordinates
       \/ InitQuirks

Next ==
    \/ BFSStart \/ BFSLoop
    \/ DFSStart \/ DFSLoop
    \/ DijkstraStart \/ DijkstraLoop \/ DijkstraEnd
    \/ AStarStart \/ AStarLoop \/ AStarEnd
    \/ executeMutationDefault \/ executeAlgorithmDefault

Spec == Init /\ [][Next]_vars

\* The calls run on: the engine is synchronous code, a call that can take a
\* step takes it.  (The calls on the edge lists of the bounds, on the cycle
\* and on the two-node graphs.)
InitFair ==
    /\ Idle
    /\ \/ InitEdgeLists
       \/ InitCycle
       \/ InitQuirks

FairSpec == InitFair /\ [][Next]_vars /\ WF_vars(Next)

(***************************************************************************)
(* The Home page with the engine behind it: the page is mounted with a     *)
(* graph and a selection, and the user presses its buttons while the       *)
(* animation interval ticks.                                               *)
(***************************************************************************)
InitReplay ==
    /\ pc = "idle"
    /\ NoLocals
    /\ HomeInit
    /\ results = <<>>
    /\ edits = 0
    /\ site = "client"
    /\ alg \in Algorithms \cup {Unsupported}
    /\ \/ /\ nodes = CycleNodes
          /\ edges = CycleEdges
          /\ startNodeId \in {Ids[1], Unknown}
          /\ targetNodeId = Ids[4]
       \/ /\ nodes = PlainNodes(1)
          /\ edges = <<>>
          /\ startNodeId = Ids[1]
          /\ targetNodeId = NoTarget
       \/ /\ nodes \in {PlainNodes(2), LineNodes(2, <<1, 2>>)}
          /\ edges \in QuirkEdgeLists
          /\ startNodeId = Ids[1]
          /\ targetNodeId = Ids[2]

NextReplay ==
    \/ startExecution \/ onSuccess \/ onError
    \/ animationTick \/ pauseExecution \/ stopExecution
    \/ stepBackward \/ stepForward
    \/ BFSStart \/ BFSLoop
    \/ DFSStart \/ DFSLoop
    \/ DijkstraStart \/ DijkstraLoop \/ DijkstraEnd
    \/ AStarStart \/ AStarLoop \/ AStarEnd
    \/ executeMutationDefault

ReplaySpec == InitReplay /\ [][NextReplay]_vars

(***************************************************************************)
(* The Home page with the editor: the page is mounted with the sample      *)
(* graph, its first node the start and its last node the target; the user  *)
(* changes the graph and the selection, runs the algorithm and stops the   *)
(* replay.                                                                 *)
(***************************************************************************)
InitEditor ==
    /\ pc = "idle"
    /\ NoLocals
    /\ HomeInit
    /\ results = <<>>
    /\ edits = 0
    /\ site = "client"
    /\ alg \in Algorithms
    /\ nodes = SampleNodes
    /\ edges = SampleEdges
    /\ startNodeId = DefaultStart(SampleNodes, Null)
    /\ targetNodeId = DefaultTarget(SampleNodes, NoTarget)

NextEditor ==
    \/ addNewNode \/ handleNodeClickAddNode \/ handleNodeClickAddEdge
    \/ handleNodeClickDelete \/ handleLinkClick \/ clearGraph
    \/ onStartNodeChange \/ onTargetNodeChange
    \/ startExecution \/ onSuccess \/ onError \/ stopExecution
    \/ BFSStart \/ BFSLoop
    \/ DFSStart \/ DFSLoop
    \/ DijkstraStart \/ DijkstraLoop \/ DijkstraEnd
    \/ AStarStart \/ AStarLoop \/ AStarEnd

EditorSpec == InitEditor /\ [][NextEditor]_vars

(***************************************************************************)
(* The three copies of the engine, served the same request one after the   *)
(* other: when a copy has returned or thrown, what it gave is kept in       *)
(* results and the request goes to a copy that has not served it yet.       *)
(***************************************************************************)
\* What a step shows, its description aside.
StepView(s) == [f \in (DOMAIN s) \ {"description"} |-> s[f]]

\* What the call gave: a failure, or the steps of the trace.
Outcome ==
    [failed |-> pc = "threw",
     steps |-> IF pc = "threw" THEN <<>> ELSE [k \in DOMAIN steps |-> StepView(steps[k])]]

submitToNextCopy ==
    /\ pc \in {"returned", "threw"}
    /\ results' = Put(results, site, Outcome)
    /\ \E copy \in Sites \ DOMAIN results' : site' = copy
    /\ pc' = "called"
    /\ error' = Null
    /\ adjacencyList' = <<>>
    /\ visited' = <<>> /\ queue' = <<>> /\ stack' = <<>>
    /\ distances' = <<>> /\ previous' = <<>> /\ unvisited' = <<>>
    /\ openSet' = <<>> /\ closedSet' = <<>> /\ gScore' = <<>> /\ fScore' = <<>>
    /\ steps' = <<>> /\ step' = 0
    /\ UNCHANGED <<alg, nodes, edges, startNodeId, targetNodeId, home, edits>>

\* The requests: the edge lists of the bounds, the cycle, the graph with
\* self-loops and parallel edges, the placed nodes and the two-node graphs.
InitCopies ==
    /\ Idle
    /\ \/ InitEdgeLists
       \/ InitCycle
       \/ InitMultigraph
       \/ InitCoordinates
       \/ InitQuirks

NextCopies == Next \/ submitToNextCopy

CopiesSpec == InitCopies /\ [][NextCopies]_vars

(***************************************************************************)
(* What the properties speak of: the graph of the request, read from the   *)
(* node list and the edge list and not from the runners' data.             *)
(***************************************************************************)
Range(seq) == {seq[i] : i \in DOMAIN seq}

\* Every edge joins two nodes of the node list.
ValidGraph ==
    \A i \in DOMAIN edges :
        edges[i].source \in NodeIds(nodes) /\ edges[i].target \in NodeIds(nodes)

\* Every edge declares a weight and the weight is positive.
PositiveWeights ==
    \A i \in DOMAIN edges : "weight" \in DOMAIN edges[i] /\ edges[i].weight > 0

\* No two edges join the same pair of nodes.
NoParallelEdges ==
    \A i, j \in DOMAIN edges :
        i # j => {edges[i].source, edges[i].target} # {edges[j].source, edges[j].target}

Joined(a, b) ==
    \E i \in DOMAIN edges : {edges[i].source, edges[i].target} = {a, b}

\* The nodes joined to start by a path of edges.
RECURSIVE Grow(_, _)
Grow(S, k) ==
    IF k = 0 THEN S
    ELSE Grow(S \cup {v \in NodeIds(nodes) : \E u \in S : Joined(u, v)}, k - 1)

Component(start) == Grow({start}, Len(nodes))

SetMin(S) == CHOOSE x \in S : \A y \in S : x <= y

\* The least total declared weight of a path from source to each node, by
\* rounds of relaxation over the edge list; Infinity where there is no path.
RECURSIVE Relax(_, _)
Relax(D, k) ==
    IF k = 0 THEN D
    ELSE Relax([v \in DOMAIN D |->
                  SetMin({D[v]} \cup
                         {D[edges[i].source] + edges[i].weight :
                             i \in {j \in DOMAIN edges : edges[j].target = v
                                        /\ D[edges[j].source] < Infinity}} \cup
                         {D[edges[i].target] + edges[i].weight :
                             i \in {j \in DOMAIN edges : edges[j].source = v
                                        /\ D[edges[j].target] < Infinity}})],
               k - 1)

ShortestFrom(source) ==
    Relax([v \in NodeIds(nodes) |-> IF v = source THEN 0 ELSE Infinity], Len(nodes))

\* p runs along existing edges.
IsPath(p) == \A k \in 1..(Len(p) - 1) : Joined(p[k], p[k + 1])

\* The total weight of a path in a graph without parallel edges.
RECURSIVE PathWeight(_)
PathWeight(p) ==
    IF Len(p) <= 1 THEN 0
    ELSE LET i == CHOOSE j \in DOMAIN edges :
                      {edges[j].source, edges[j].target} = {p[1], p[2]}
         IN  edges[i].weight + PathWeight(Tail(p))

IsCycleScenario == nodes = CycleNodes /\ edges = CycleEdges

StepsWithPath == {k \in DOMAIN steps : "path" \in DOMAIN steps[k]}

Kind(s) == s.description[1]

(***************************************************************************)
(* C1.  executeDijkstra without a target, on a graph with positive edge    *)
(* weights and from a start node of the graph: the distances of the last   *)
(* step give every node reachable from start its least total path weight   *)
(* and every other node Infinity.                                          *)
(***************************************************************************)
C1_Case ==
    /\ pc = "returned" /\ alg = "dijkstra" /\ ~HasTarget
    /\ ValidGraph /\ PositiveWeights
    /\ startNodeId \in NodeIds(nodes)

C1_DijkstraDistances ==
    C1_Case => Last(steps).distances = ShortestFrom(startNodeId)

\* A run in which a node is unreachable and a detour beats a direct edge.
C1_Witness ==
    /\ C1_Case
    /\ \E v \in NodeIds(nodes) : Last(steps).distances[v] = Infinity
    /\ \E i \in DOMAIN edges :
          /\ edges[i].source = startNodeId
          /\ Last(steps).distances[edges[i].target] < edges[i].weight
          /\ edges[i].target # startNodeId

(***************************************************************************)
(* C2.  executeAStar on a graph without parallel edges and with positive   *)
(* weights, to a target reachable from start, with coordinates under which *)
(* the heuristic of no node exceeds its least cost to the target: the path *)
(* of the trace runs from start to target along edges and weighs what      *)
(* executeDijkstra reports as the distance of the target.                  *)
(***************************************************************************)
Heuristic(n) == getHeuristic(nodeMap(nodes), n, targetNodeId)

Admissible ==
    \A n \in NodeIds(nodes) :
        ~Heuristic(n).threw /\ Heuristic(n).value <= ShortestFrom(targetNodeId)[n]

DijkstraReported ==
    Last(executeDijkstra(nodes, edges, startNodeId, targetNodeId).steps)
        .distances[targetNodeId]

C2_Case ==
    /\ pc = "returned" /\ alg = "astar"
    /\ ValidGraph /\ PositiveWeights /\ NoParallelEdges
    /\ startNodeId \in NodeIds(nodes)
    /\ targetNodeId \in Component(startNodeId)
    /\ Admissible

C2_AStarMatchesDijkstra ==
    C2_Case =>
        \E k \in StepsWithPath :
            LET path == steps[k].path IN
            /\ Len(path) >= 1 /\ path[1] = startNodeId /\ Last(path) = targetNodeId
            /\ IsPath(path)
            /\ PathWeight(path) = DijkstraReported

(***************************************************************************)
(* C3.  executeBFS and executeDFS without a target, from a start node of   *)
(* the graph: the visited set of the last step is the connected component  *)
(* of start, as many nodes and the same nodes; on the unit-weight cycle    *)
(* A-B-C-D-E-A from A it has 5 nodes.                                      *)
(***************************************************************************)
C3_Case ==
    /\ pc = "returned" /\ alg \in {"bfs", "dfs"} /\ ~HasTarget
    /\ ValidGraph
    /\ startNodeId \in NodeIds(nodes)

C3_VisitedIsComponent ==
    C3_Case =>
        LET v == Last(steps).visited IN
        /\ Len(v) = Cardinality(Component(startNodeId))
        /\ Range(v) = Component(startNodeId)
        /\ (IsCycleScenario /\ startNodeId = "A" => Len(v) = 5)

\* The scenario of the specification, and a component that is not the graph.
C3_Witness ==
    /\ C3_Case /\ alg = "bfs" /\ IsCycleScenario /\ startNodeId = "A"
    /\ Len(Last(steps).visited) = 5

C3_WitnessDFS ==
    /\ C3_Case /\ alg = "dfs"
    /\ Len(Last(steps).visited) = 3 /\ Len(nodes) = 4

(***************************************************************************)
(* C4.  The lists createAdjacencyList returns for a node list and an edge  *)
(* list whose endpoints are nodes of the list: every node has a list, and  *)
(* the list of a holds (b, w) as many times as the list of b holds (a, w). *)
(***************************************************************************)
Count(seq, x) == Cardinality({i \in DOMAIN seq : seq[i] = x})

Built == pc \in {"bfs", "dfs", "dijkstra", "dijkstraEnd", "astar", "astarEnd"}

C4_AdjacencySymmetric ==
    ValidGraph =>
        /\ Built => adjacencyList # <<>>
        /\ adjacencyList # <<>> =>
              /\ DOMAIN adjacencyList = NodeIds(nodes)
              /\ \A a, b \in NodeIds(nodes) :
                    \A e \in Range(adjacencyList[a]) \cup Range(adjacencyList[b]) :
                        Count(adjacencyList[a], [nodeId |-> b, weight |-> e.weight])
                            = Count(adjacencyList[b], [nodeId |-> a, weight |-> e.weight])

\* Lists built from edges of two different weights, one node without edge.
C4_Witness ==
    /\ ValidGraph /\ Built
    /\ \E a \in NodeIds(nodes) : adjacencyList[a] = <<>>
    /\ \E a \in NodeIds(nodes) :
          \E i, j \in DOMAIN adjacencyList[a] :
              adjacencyList[a][i].weight # adjacencyList[a][j].weight

(***************************************************************************)
(* C6.  A run whose target is a node of the graph that start does not      *)
(* reach raises no error, and the last step of its trace is the explicit   *)
(* "no path found" step, whichever the runner.                             *)
(***************************************************************************)
UnreachableTarget ==
    /\ ValidGraph
    /\ startNodeId \in NodeIds(nodes)
    /\ HasTarget /\ targetNodeId \in NodeIds(nodes)
    /\ targetNodeId \notin Component(startNodeId)

C6_UnreachableEndsNoPath ==
    UnreachableTarget =>
        /\ pc \notin {"threw", "diverged"}
        /\ pc = "returned" => Kind(Last(steps)) = "No path found from to"

(***************************************************************************)
(* C7.  executeAStar records the "No path found" step exactly when the     *)
(* target was never selected; when the target is reachable the trace ends  *)
(* with the target-reached step, which carries the path.                   *)
(***************************************************************************)
AStarReached ==
    \E k \in DOMAIN steps : Kind(steps[k]) = "Target node reached! Path found with cost"

AStarNoPath ==
    \E k \in DOMAIN steps : Kind(steps[k]) = "No path found from to"

C7_AStarNoPathIffNotReached ==
    pc = "returned" /\ alg = "astar" =>
        /\ AStarNoPath <=> ~AStarReached
        /\ (ValidGraph /\ startNodeId \in NodeIds(nodes)
               /\ targetNodeId \in Component(startNodeId)) =>
              /\ Kind(Last(steps)) = "Target node reached! Path found with cost"
              /\ "path" \in DOMAIN Last(steps)

(***************************************************************************)
(* C8.  executeDijkstra with a target of the graph that start does not     *)
(* reach: the predecessor of the target is still null and no step of the   *)
(* trace has a path.                                                       *)
(***************************************************************************)
C8_UnreachableNoPathStep ==
    pc = "returned" /\ alg = "dijkstra" /\ UnreachableTarget =>
        /\ previous[targetNodeId] = Null
        /\ StepsWithPath = {}

(***************************************************************************)
(* C9.  executeDijkstra with a target reachable from start, positive       *)
(* weights, no parallel edges: the last step has a path from start to      *)
(* target along edges whose weight is the least weight of such a path and  *)
(* is distances[target] of that step; on the unit-weight cycle             *)
(* A-B-C-D-E-A from A to D the distance is 2 and the path has 3 nodes.     *)
(***************************************************************************)
C9_Case ==
    /\ pc = "returned" /\ alg = "dijkstra"
    /\ ValidGraph /\ PositiveWeights /\ NoParallelEdges
    /\ startNodeId \in NodeIds(nodes)
    /\ HasTarget /\ targetNodeId \in Component(startNodeId)

C9_DijkstraPath ==
    C9_Case =>
        LET last == Last(steps) IN
        /\ "path" \in DOMAIN last
        /\ Len(last.path) >= 1
        /\ last.path[1] = startNodeId /\ Last(last.path) = targetNodeId
        /\ IsPath(last.path)
        /\ PathWeight(last.path) = ShortestFrom(startNodeId)[targetNodeId]
        /\ last.distances[targetNodeId] = ShortestFrom(startNodeId)[targetNodeId]
        /\ (IsCycleScenario /\ startNodeId = "A" /\ targetNodeId = "D" =>
               last.distances["D"] = 2 /\ Len(last.path) = 3)

C9_Witness ==
    /\ C9_Case /\ IsCycleScenario /\ startNodeId = "A" /\ targetNodeId = "D"
    /\ Last(steps).path = <<"A", "E", "D">>

\* A path that is a detour around a heavier direct edge.
C9_WitnessDetour ==
    /\ C9_Case /\ Len(Last(steps).path) = 3
    /\ \E i \in DOMAIN edges :
          {edges[i].source, edges[i].target} = {startNodeId, targetNodeId}

(***************************************************************************)
(* C10.  A call returns a result or fails before it has recorded a step:   *)
(* no call records steps and then fails.                                   *)
(***************************************************************************)
C10_NoStepsBeforeFailure == pc = "threw" => steps = <<>>

(***************************************************************************)
(* C11.  When an edge names, as source or as target, an id that is the id  *)
(* of no node: createAdjacencyList throws and returns no lists, and the    *)
(* call of any runner with that graph fails with no step recorded.         *)
(***************************************************************************)
C11_UnknownNodeFails ==
    ~ValidGraph =>
        /\ createAdjacencyList(nodes, edges).threw
        /\ adjacencyList = <<>>
        /\ steps = <<>>
        /\ pc \in {"called", "threw"}

\* A runner has failed on an edge list whose second edge names an absent
\* node as its target, and another on one whose first edge names an absent
\* node as its source.
C11_Witness ==
    /\ ~ValidGraph /\ pc = "threw" /\ error = "TypeError"
    /\ alg = "dijkstra" /\ Len(edges) = 2 /\ edges[2].target = Unknown

C11_WitnessSource ==
    /\ ~ValidGraph /\ pc = "threw" /\ error = "TypeError"
    /\ alg = "bfs" /\ Len(edges) = 1 /\ edges[1].source = Unknown

(***************************************************************************)
(* C12.  executeAStar called without a target throws the error "A* search  *)
(* requires a target node" whatever the graph and the start node, with no  *)
(* result and no step; executeBFS, executeDFS and executeDijkstra called   *)
(* without a target never throw that error, and on a graph whose edges     *)
(* join nodes, from a start node of the graph, they throw nothing.         *)
(* (On the server executeAStar is called once executeAlgorithm has built   *)
(* the adjacency lists.)                                                   *)
(***************************************************************************)
AStarCalled ==
    /\ alg = "astar" /\ pc # "called"
    /\ site \in Servers => ValidGraph

C12_MissingTarget ==
    /\ (AStarCalled /\ targetNodeId = NoTarget) =>
           /\ pc = "threw" /\ error = MissingTarget
           /\ steps = <<>>
    /\ (alg \in {"bfs", "dfs", "dijkstra"} /\ targetNodeId = NoTarget) =>
           /\ error # MissingTarget
           /\ (ValidGraph /\ startNodeId \in NodeIds(nodes)) => pc # "threw"

\* The client's executeAStar has thrown it on a graph with an edge to an
\* absent node; the server's has on a graph whose edges join nodes.
C12_Witness ==
    /\ AStarCalled /\ targetNodeId = NoTarget /\ error = MissingTarget
    /\ site = "client" /\ ~ValidGraph

C12_WitnessServer ==
    /\ AStarCalled /\ targetNodeId = NoTarget /\ error = MissingTarget
    /\ site \in Servers /\ Len(edges) = 2

(***************************************************************************)
(* C13.  A request whose tag is none of bfs, dfs, dijkstra, astar fails    *)
(* with no result and no step.  As stated: with the unknown-algorithm      *)
(* error of its dispatcher, on the client and on the server alike.         *)
(***************************************************************************)
UnknownTagDispatched == alg \notin Algorithms /\ pc # "called"

C13_UnknownTagError ==
    UnknownTagDispatched =>
        /\ pc = "threw" /\ steps = <<>>
        /\ error = (IF site = "client" THEN UnknownAlgorithm ELSE UnsupportedAlgorithm)

(***************************************************************************)
(* C13, amended.  The client's switch throws "Unknown algorithm" whatever  *)
(* the graph.  The server's executeAlgorithm builds the adjacency lists    *)
(* before its switch: it throws "Unsupported algorithm" when every edge    *)
(* joins nodes of the graph, and the TypeError of createAdjacencyList      *)
(* otherwise.  Either way there is no result and no step.                  *)
(***************************************************************************)
C13_UnknownTagErrorAfterBuild ==
    UnknownTagDispatched =>
        /\ pc = "threw" /\ steps = <<>>
        /\ error = (IF site = "client" THEN UnknownAlgorithm
                    ELSE IF ValidGraph THEN UnsupportedAlgorithm
                    ELSE "TypeError")

C13_Witness ==
    /\ UnknownTagDispatched /\ site \in Servers /\ error = UnsupportedAlgorithm
    /\ adjacencyList # <<>>

C13_WitnessClient ==
    /\ UnknownTagDispatched /\ site = "client" /\ error = UnknownAlgorithm
    /\ ~ValidGraph

(***************************************************************************)
(* C14.  In the lists createAdjacencyList builds, every edge stands in the *)
(* list of its source and in the list of its target, in the order of the   *)
(* edge list, with its declared weight when that is present and not 0 and  *)
(* with the weight 1 when it is absent or 0.  So executeDijkstra from A on *)
(* the graph whose only edge A-B declares the weight 0 ends with the       *)
(* distance 1 for B.                                                       *)
(***************************************************************************)
EffectiveWeight(e) ==
    IF "weight" \notin DOMAIN e THEN 1
    ELSE IF e.weight = 0 THEN 1
    ELSE e.weight

RECURSIVE EntriesOf(_, _)
EntriesOf(a, es) ==
    IF es = <<>> THEN <<>>
    ELSE LET e == Head(es)
             out == IF e.source = a
                    THEN <<[nodeId |-> e.target, weight |-> EffectiveWeight(e)]>>
                    ELSE <<>>
             back == IF e.target = a
                     THEN <<[nodeId |-> e.source, weight |-> EffectiveWeight(e)]>>
                     ELSE <<>>
         IN  out \o back \o EntriesOf(a, Tail(es))

\* The run goes to B or has no target (a run to A stops at A, before B).
ZeroWeightScenario ==
    /\ alg = "dijkstra" /\ startNodeId = "A" /\ targetNodeId \in {"B", NoTarget}
    /\ NodeIds(nodes) = {"A", "B"}
    /\ edges = <<[source |-> "A", target |-> "B", weight |-> 0]>>

C14_EffectiveWeights ==
    /\ (ValidGraph /\ adjacencyList # <<>>) =>
           \A a \in NodeIds(nodes) : adjacencyList[a] = EntriesOf(a, edges)
    /\ (ZeroWeightScenario /\ pc = "returned") =>
           Last(steps).distances["B"] = 1

C14_Witness ==
    /\ ZeroWeightScenario /\ pc = "returned"
    /\ adjacencyList["B"] = <<[nodeId |-> "A", weight |-> 1]>>
    /\ Last(steps).distances["B"] = 1

\* Lists built from an edge without a weight after an edge with one.
C14_WitnessAbsent ==
    /\ ValidGraph /\ adjacencyList # <<>>
    /\ Len(edges) = 2 /\ "weight" \notin DOMAIN edges[2]
    /\ Len(adjacencyList["A"]) = 2

(***************************************************************************)
(* C15.  executeBFS without a target, from a start node whose connected    *)
(* component has c nodes, returns a trace of exactly 2c - 1 steps: the     *)
(* initial step, c - 1 discovery steps and c - 1 steps that move to the    *)
(* head of a non-empty queue.  From an isolated node the trace is the      *)
(* initial step alone, and its visited set is {start}.                     *)
(***************************************************************************)
C15_Case ==
    /\ pc = "returned" /\ alg = "bfs" /\ targetNodeId = NoTarget
    /\ ValidGraph
    /\ startNodeId \in NodeIds(nodes)

StepsOfKind(kind) == {k \in DOMAIN steps : Kind(steps[k]) = kind}

C15_BFSStepCount ==
    C15_Case =>
        LET c == Cardinality(Component(startNodeId)) IN
        /\ Len(steps) = 2 * c - 1
        /\ StepsOfKind("Starting BFS from node") = {1}
        /\ Cardinality(StepsOfKind("Visiting node, discovered neighbor")) = c - 1
        /\ Cardinality(StepsOfKind("Moving to next node in queue")) = c - 1
        /\ c = 1 => steps[1].visited = <<startNodeId>>

\* A component of four nodes with a cycle, and an isolated start node in a
\* graph that has edges.
C15_Witness ==
    /\ C15_Case /\ Cardinality(Component(startNodeId)) = 4
    /\ Len(edges) > 3 /\ Len(steps) = 7

C15_WitnessIsolated ==
    /\ C15_Case /\ Cardinality(Component(startNodeId)) = 1
    /\ Len(edges) > 0 /\ Len(steps) = 1

(***************************************************************************)
(* C16.  The trace only grows by appending.  While a call runs, every step *)
(* already recorded stays what it was, and the k-th step recorded has the  *)
(* step index k - 1; the local data of the runner change meanwhile.  The   *)
(* result the page holds stays what it was while a later call runs: it     *)
(* changes only when a call returns, to the trace of that call, and when   *)
(* the replay is stopped.                                                  *)
(***************************************************************************)
Extends(old, new) ==
    /\ Len(new) >= Len(old)
    /\ \A k \in DOMAIN old : new[k] = old[k]

StepIndexed == \A k \in DOMAIN steps : steps[k].step = k - 1

C16_TraceAppendOnly ==
    /\ []StepIndexed
    /\ [][/\ pc # "idle" => Extends(steps, steps')
          /\ (pc = "idle" /\ pc' = "idle") => steps' = steps
          /\ algorithmResult' # algorithmResult =>
                \/ pc = "returned" /\ algorithmResult'.steps = steps
                \/ algorithmResult' = NoResult]_vars

\* A later call of executeDijkstra is under way while the page holds the
\* result of an earlier one, and its distance map is no longer the one of
\* its first step.
C16_Witness ==
    /\ alg = "dijkstra" /\ pc = "dijkstra"
    /\ algorithmResult # NoResult
    /\ Len(steps) > 2 /\ Len(steps) < Len(algorithmResult.steps)
    /\ steps[1].distances # distances

(***************************************************************************)
(* C17.  Every call ends: it returns or it throws, whatever the graph      *)
(* (cycles, self-loops, parallel edges, several components), the start     *)
(* node and the target, and the walk over the predecessors that builds a   *)
(* path in executeDijkstra and executeAStar always comes to null.  On a    *)
(* graph whose edges join nodes, from a start node of the graph and        *)
(* without a target, executeBFS, executeDFS and executeDijkstra return a   *)
(* result, with their frontier exhausted: the queue empty, the stack       *)
(* empty, no unvisited node at a finite distance.                          *)
(***************************************************************************)
Done == pc \in {"returned", "threw"}

Exhausted ==
    /\ alg = "bfs" => queue = <<>>
    /\ alg = "dfs" => stack = <<>>
    /\ alg = "dijkstra" =>
          \A k \in DOMAIN unvisited : distances[unvisited[k]] = Infinity

C17_Terminates ==
    /\ <>Done
    /\ [](pc # "diverged")
    /\ []((/\ Done /\ alg \in {"bfs", "dfs", "dijkstra"} /\ targetNodeId = NoTarget
           /\ ValidGraph /\ startNodeId \in NodeIds(nodes))
              => pc = "returned" /\ Exhausted)

\* A run of executeDFS over the 5-cycle has returned, and a run of
\* executeAStar has walked a path of three nodes over that cycle.
C17_Witness ==
    /\ pc = "returned" /\ alg = "dfs" /\ IsCycleScenario
    /\ targetNodeId = NoTarget /\ Len(steps) > 9

C17_WitnessWalk ==
    /\ pc = "returned" /\ alg = "astar" /\ IsCycleScenario
    /\ \E k \in StepsWithPath : Len(steps[k].path) = 3

(***************************************************************************)
(* C18.  The replay cursor of the Home page.  Whatever the events (a run   *)
(* that succeeds or fails, a tick of the animation interval, stepForward,  *)
(* stepBackward, pause, resume, stop): currentStepIndex is -1 exactly when *)
(* no result is held, and with a result it is an index of its steps;       *)
(* stepForward at the last step and stepBackward at step 0 leave it where  *)
(* it is; and the cursor moves without a call of a runner: it changes when *)
(* a call that was started returns, and otherwise only on events that      *)
(* start no call and leave the trace alone, as does the resumption of a    *)
(* paused replay.                                                          *)
(***************************************************************************)
Held == algorithmResult # NoResult

CursorInRange ==
    /\ currentStepIndex = -1 <=> ~Held
    /\ Held => /\ currentStepIndex >= 0
               /\ currentStepIndex <= Len(algorithmResult.steps) - 1

C18_ReplayCursor ==
    /\ []CursorInRange
    /\ [][/\ (stepForward /\ Held
                 /\ currentStepIndex = Len(algorithmResult.steps) - 1)
                => currentStepIndex' = currentStepIndex
          /\ (stepBackward /\ currentStepIndex = 0)
                => currentStepIndex' = currentStepIndex
          /\ currentStepIndex' # currentStepIndex =>
                \/ pc = "returned"
                \/ pc = "idle" /\ pc' = "idle" /\ steps' = steps
          /\ (pc = "idle" /\ isPaused /\ Held /\ ~isPaused') =>
                pc' = "idle" /\ steps' = steps]_vars

\* The animation has run to the last step of a trace and stopped there; the
\* cursor is back on step 0 of a paused replay.
C18_Witness ==
    /\ pc = "idle" /\ Held /\ ~isRunning
    /\ Len(algorithmResult.steps) > 5
    /\ currentStepIndex = Len(algorithmResult.steps) - 1

C18_WitnessPaused ==
    /\ pc = "idle" /\ Held /\ isPaused /\ isRunning
    /\ Len(algorithmResult.steps) > 5
    /\ currentStepIndex = 0

(***************************************************************************)
(* C19.  In a trace of executeDijkstra, a node that is in the visited set  *)
(* of a step (it has been removed from unvisited) has the same entry in    *)
(* the distances of every later step.                                      *)
(***************************************************************************)
C19_VisitedDistanceFinal ==
    alg = "dijkstra" =>
        \A k, l \in DOMAIN steps :
            k < l =>
                \A n \in Range(steps[k].visited) :
                    steps[l].distances[n] = steps[k].distances[n]

\* A trace in which a distance was lowered twice and a node was visited
\* before the second time.
C19_Witness ==
    /\ alg = "dijkstra" /\ pc = "returned"
    /\ \E k, l \in DOMAIN steps :
          /\ k < l
          /\ steps[k].visited # <<>>
          /\ \E n \in NodeIds(nodes) :
                /\ steps[l].distances[n] < steps[k].distances[n]
                /\ steps[k].distances[n] < Infinity

(***************************************************************************)
(* C20.  executeDijkstra without a target, on a graph whose edges join     *)
(* nodes and from a start node of the graph: the visited set of the last   *)
(* step is the set of the nodes reachable from start, every removal from   *)
(* unvisited being recorded in a step.                                     *)
(***************************************************************************)
C20_Case ==
    /\ pc = "returned" /\ alg = "dijkstra" /\ targetNodeId = NoTarget
    /\ ValidGraph
    /\ startNodeId \in NodeIds(nodes)

C20_LastVisitedIsReachable ==
    C20_Case => Range(Last(steps).visited) = Component(startNodeId)

(***************************************************************************)
(* C21.  When several candidates share the smallest key, the node selected *)
(* is the first of them in the iteration order of the set: for             *)
(* executeDijkstra the unvisited node of smallest distance that comes      *)
(* first in the node list, for executeAStar the open node of smallest      *)
(* f-score that was inserted first into the open set.                      *)
(*                                                                         *)
(* The node executeDijkstra selects is the one it deletes from unvisited;  *)
(* the node executeAStar selects is the one it adds to the closed set, or  *)
(* the target of the step "Target node reached".  The order of insertion   *)
(* into the open set is read from the trace: the start node, then the      *)
(* nodes of the steps "Updated node" in the order of the steps.            *)
(***************************************************************************)
\* The first element of the sequence order that is in S.
FirstOf(order, S) == order[SetMin({i \in DOMAIN order : order[i] \in S})]

\* The members with the smallest key.
Smallest(members, key) ==
    {m \in members : \A n \in members : key[m] <= key[n]}

UpdatedSteps ==
    SelectSeq(steps, LAMBDA s : Kind(s) = "Updated node with g-score, f-score")

InsertionOrder ==
    <<startNodeId>> \o [i \in DOMAIN UpdatedSteps |-> UpdatedSteps[i].description[2]]

DijkstraCandidates == Smallest(Range(unvisited), distances)
AStarCandidates == Smallest(Range(openSet), fScore)

C21_FirstOfTiesSelected ==
    [][/\ (pc = "dijkstra" /\ unvisited' # unvisited)
            => Range(unvisited) \ Range(unvisited')
                  = {FirstOf(NodeIdSeq(nodes), DijkstraCandidates)}
       /\ (pc = "astar" /\ closedSet' # closedSet)
            => Last(closedSet') = FirstOf(InsertionOrder, AStarCandidates)
       /\ (pc = "astar" /\ closedSet' = closedSet /\ steps' # steps)
            => Last(steps').current = FirstOf(InsertionOrder, AStarCandidates)]_vars

\* executeDijkstra has moved to the first of two unvisited nodes at the
\* smallest distance, and that node is not the one whose identifier is
\* smallest.
C21_Witness ==
    /\ pc = "dijkstra" /\ alg = "dijkstra"
    /\ Cardinality(DijkstraCandidates) >= 2
    /\ Kind(Last(steps)) = "Moving to node with current distance"
    /\ Last(steps).current = FirstOf(NodeIdSeq(nodes), DijkstraCandidates)
    /\ Last(steps).current # FirstOf(Ids, DijkstraCandidates)

\* executeAStar has moved to the first inserted of two open nodes with the
\* smallest f-score, and that node is not the first of them in the node list.
C21_WitnessAStar ==
    /\ pc = "astar" /\ alg = "astar"
    /\ Cardinality(AStarCandidates) >= 2
    /\ Kind(Last(steps)) = "Moving to node with f-score"
    /\ Last(steps).current = FirstOf(InsertionOrder, AStarCandidates)
    /\ Last(steps).current # FirstOf(NodeIdSeq(nodes), AStarCandidates)

(***************************************************************************)
(* C22.  executeBFS with a target that is reachable from start and is not  *)
(* start, on a graph whose edges join nodes: the step that discovers the   *)
(* target is not the last step; the step "Target node reached" is recorded *)
(* when the target is taken from the head of the queue, it is recorded     *)
(* once and it is the last step of the trace; no step expands the target   *)
(* (no neighbor is discovered from it).                                    *)
(***************************************************************************)
C22_Case ==
    /\ alg = "bfs"
    /\ ValidGraph
    /\ startNodeId \in NodeIds(nodes)
    /\ targetNodeId # NoTarget
    /\ targetNodeId # startNodeId
    /\ targetNodeId \in Component(startNodeId)

\* The steps that discover the target, and the steps that report it.
DiscoveriesOfTarget ==
    {k \in StepsOfKind("Visiting node, discovered neighbor") :
        steps[k].description[3] = targetNodeId}
TargetReachedSteps == StepsOfKind("Target node reached")

C22_TargetReportedOnDequeue ==
    C22_Case =>
        /\ \A k \in TargetReachedSteps :
              /\ k = Len(steps) /\ pc = "returned"
              /\ k > 1
              /\ steps[k - 1].queue # <<>>
              /\ steps[k - 1].queue[1] = targetNodeId
              /\ steps[k].queue = Tail(steps[k - 1].queue)
              /\ steps[k].current = targetNodeId
              /\ \E d \in DiscoveriesOfTarget : d < k
        /\ \A d \in DiscoveriesOfTarget :
              /\ Kind(steps[d]) # "Target node reached"
              /\ Has(steps[d].queue, targetNodeId)
              /\ pc = "returned" => d < Len(steps)
        /\ \A k \in StepsOfKind("Visiting node, discovered neighbor") :
              steps[k].current # targetNodeId
        /\ pc = "returned" =>
              /\ Cardinality(TargetReachedSteps) = 1
              /\ Cardinality(DiscoveriesOfTarget) = 1

\* The target was discovered, other nodes were dequeued before it, and then
\* it was reported; it has a neighbor that was never discovered.
C22_Witness ==
    /\ C22_Case /\ pc = "returned"
    /\ \E d \in DiscoveriesOfTarget : d + 1 < Len(steps) - 1
    /\ Kind(Last(steps)) = "Target node reached"
    /\ \E n \in NodeIds(nodes) :
          Joined(targetNodeId, n) /\ ~Has(Last(steps).visited, n)

(***************************************************************************)
(* C23.  In every step of an executeBFS trace, on any graph (self-loops    *)
(* and parallel edges included), the queue holds no node twice and every   *)
(* queued node is in the visited set; no node is enqueued more than once   *)
(* during a run.                                                           *)
(*                                                                         *)
(* The nodes enqueued during a run are the start node and the neighbors of *)
(* the steps "discovered neighbor", one enqueue each.                      *)
(***************************************************************************)
NoRepetition(seq) == \A i, j \in DOMAIN seq : seq[i] = seq[j] => i = j

\* The nodes enqueued so far, in the order of their enqueues.
Enqueued ==
    LET found == SelectSeq(steps,
                     LAMBDA s : Kind(s) = "Visiting node, discovered neighbor")
    IN  <<startNodeId>> \o [i \in DOMAIN found |-> found[i].description[3]]

C23_QueueWithinVisited ==
    alg = "bfs" =>
        /\ \A k \in DOMAIN steps :
              /\ NoRepetition(steps[k].queue)
              /\ \A i \in DOMAIN steps[k].queue :
                    Has(steps[k].visited, steps[k].queue[i])
        /\ NoRepetition(queue)
        /\ \A i \in DOMAIN queue : Has(visited, queue[i])
        /\ steps # <<>> => NoRepetition(Enqueued)
        /\ \A k \in StepsOfKind("Visiting node, discovered neighbor") :
              \* the step of a discovery is the step of an enqueue
              /\ Last(steps[k].queue) = steps[k].description[3]
              /\ steps[k].queue # steps[k - 1].queue

\* A run over a self-loop and a parallel edge has returned, after a step
\* whose queue held two nodes.
C23_Witness ==
    /\ alg = "bfs" /\ pc = "returned"
    /\ edges = MultigraphEdges
    /\ \E k \in DOMAIN steps : Len(steps[k].queue) >= 2
    /\ Len(Enqueued) = Len(nodes)

\* A run over two parallel edges has returned: the neighbor is on the
\* adjacency list twice and was enqueued once.
C23_WitnessParallel ==
    /\ alg = "bfs" /\ pc = "returned"
    /\ \E i, j \in DOMAIN edges :
          /\ i # j
          /\ {edges[i].source, edges[i].target} = {edges[j].source, edges[j].target}
          /\ edges[i].source # edges[i].target
    /\ Len(Enqueued) = 2

(***************************************************************************)
(* C24.  executeBFS without a target, from a start node of the graph, on a *)
(* graph whose edges join nodes: the nodes enter the visited set, and      *)
(* leave the queue, in non-decreasing order of their hop distance (the     *)
(* number of edges of a shortest path) from the start node.                *)
(*                                                                         *)
(* The order of entry is the order of the visited set; the nodes dequeued  *)
(* are the start node and then the nodes of the steps "Moving to next node *)
(* in queue", each of which names the head of the queue the next iteration *)
(* shifts.                                                                 *)
(***************************************************************************)
\* The number of edges of a shortest path from start to n (n reachable).
Hops(start, n) == SetMin({k \in 0..Len(nodes) : n \in Grow({start}, k)})

NonDecreasingHops(seq) ==
    \A i, j \in DOMAIN seq :
        i <= j => Hops(startNodeId, seq[i]) <= Hops(startNodeId, seq[j])

Dequeued ==
    LET moved == SelectSeq(steps,
                     LAMBDA s : Kind(s) = "Moving to next node in queue")
    IN  <<startNodeId>> \o [i \in DOMAIN moved |-> moved[i].current]

C24_Case ==
    /\ alg = "bfs" /\ targetNodeId = NoTarget
    /\ ValidGraph
    /\ startNodeId \in NodeIds(nodes)
    /\ pc \in {"bfs", "returned"}

C24_LevelOrder ==
    C24_Case =>
        /\ Range(visited) \subseteq Component(startNodeId)
        /\ NonDecreasingHops(visited)
        /\ \A k \in DOMAIN steps : NonDecreasingHops(steps[k].visited)
        /\ NonDecreasingHops(Dequeued)
        /\ NoRepetition(Dequeued)
        /\ pc = "returned" => Range(Dequeued) = Range(visited)

\* A run has returned that visited two nodes one hop away and two nodes two
\* hops away.
C24_Witness ==
    /\ C24_Case /\ pc = "returned"
    /\ \E a, b, c, d \in Range(visited) :
          /\ a # b /\ c # d
          /\ Hops(startNodeId, a) = 1 /\ Hops(startNodeId, b) = 1
          /\ Hops(startNodeId, c) = 2 /\ Hops(startNodeId, d) = 2

(***************************************************************************)
(* C25.  executeDFS without a target, from a start node of the graph, on a *)
(* graph whose edges join nodes: the order in which the nodes are first    *)
(* visited (the visited set, one step "Visiting node" each) is the         *)
(* preorder of the recursive depth-first search from start that takes the  *)
(* neighbors of each node in the order of its adjacency list, although a   *)
(* node may be on the stack several times before its first visit.          *)
(***************************************************************************)
\* The recursive search: seen is the preorder so far; the neighbors
\* nbrs[i..] of a node remain to be tried.
RECURSIVE Explore(_, _, _, _)
Explore(adj, seen, nbrs, i) ==
    IF i > Len(nbrs) THEN seen
    ELSE LET n == nbrs[i].nodeId IN
         IF Has(seen, n) THEN Explore(adj, seen, nbrs, i + 1)
         ELSE Explore(adj, Explore(adj, Append(seen, n), adj[n], 1), nbrs, i + 1)

Preorder(adj, start) == Explore(adj, <<start>>, adj[start], 1)

IsPrefix(a, b) == Len(a) <= Len(b) /\ a = SubSeq(b, 1, Len(a))

\* The nodes of the steps "Visiting node", in the order of the steps.
VisitingOrder ==
    LET visiting == SelectSeq(steps, LAMBDA s : Kind(s) = "Visiting node")
    IN  [i \in DOMAIN visiting |-> visiting[i].current]

C25_Case ==
    /\ alg = "dfs" /\ targetNodeId = NoTarget
    /\ ValidGraph
    /\ startNodeId \in NodeIds(nodes)
    /\ pc \in {"dfs", "returned"}

C25_DFSPreorder ==
    C25_Case =>
        /\ VisitingOrder = visited
        /\ IsPrefix(visited, Preorder(adjacencyList, startNodeId))
        /\ pc = "returned" => visited = Preorder(adjacencyList, startNodeId)

\* A run has returned in which a node was on the stack twice, and whose
\* order of visits is not the order of discovery of a breadth-first search
\* (a node two hops from start is visited before a node one hop from it).
C25_Witness ==
    /\ C25_Case /\ pc = "returned"
    /\ \E k \in DOMAIN steps : ~NoRepetition(steps[k].stack)
    /\ ~NonDecreasingHops(visited)

(***************************************************************************)
(* C26.  executeDFS with a target reachable from start (start in the       *)
(* graph, edges joining nodes): the trace ends with the step "Target node  *)
(* reached", recorded directly after the step that first visits the        *)
(* target; once the target is visited no other node is visited and nothing *)
(* more is pushed on the stack.                                            *)
(***************************************************************************)
C26_Case ==
    /\ alg = "dfs"
    /\ ValidGraph
    /\ startNodeId \in NodeIds(nodes)
    /\ targetNodeId # NoTarget
    /\ targetNodeId \in Component(startNodeId)

C26_TargetEndsDFS ==
    C26_Case =>
        /\ pc # "threw"
        /\ Has(visited, targetNodeId) <=> pc = "returned"
        /\ TargetReachedSteps # {} <=> pc = "returned"
        /\ pc = "returned" =>
              LET n == Len(steps) IN
              /\ n >= 3
              /\ TargetReachedSteps = {n}
              /\ Kind(steps[n - 1]) = "Visiting node"
              /\ steps[n - 1].current = targetNodeId
              /\ \A k \in StepsOfKind("Visiting node") :
                    steps[k].current = targetNodeId => k = n - 1
              /\ Last(visited) = targetNodeId
              /\ steps[n].visited = visited
              /\ steps[n - 1].visited = visited
              /\ steps[n].stack = steps[n - 1].stack
              /\ steps[n].stack = stack

\* The target was reached after other nodes were visited, with nodes left on
\* the stack and a neighbor of the target never visited.
C26_Witness ==
    /\ C26_Case /\ pc = "returned"
    /\ Kind(Last(steps)) = "Target node reached"
    /\ Len(visited) >= 3
    /\ stack # <<>>
    /\ \E n \in NodeIds(nodes) : Joined(targetNodeId, n) /\ ~Has(visited, n)

(***************************************************************************)
(* C27.  The heuristic of executeAStar is |x_n - x_t| + |y_n - y_t| for a  *)
(* node n and the target t whenever both have an x and a y coordinate, a   *)
(* coordinate 0 included, and is 1 only when a coordinate of one of the    *)
(* two is absent.                                                          *)
(*                                                                         *)
(* The values the run computed are read from it: the f-score of the start  *)
(* node in the first step is the heuristic of the start node, and a step   *)
(* "Updated node" shows a g-score and an f-score whose difference is the   *)
(* heuristic of its node.                                                  *)
(***************************************************************************)
HasCoordinates(node) == "x" \in DOMAIN node /\ "y" \in DOMAIN node

Manhattan(n, t) ==
    IF HasCoordinates(n) /\ HasCoordinates(t)
    THEN Abs(n.x - t.x) + Abs(n.y - t.y)
    ELSE 1

ManhattanOf(id) == Manhattan(nodeMap(nodes)[id], nodeMap(nodes)[targetNodeId])

C27_Case ==
    /\ alg = "astar"
    /\ pc \in {"astar", "astarEnd", "returned"}
    /\ ValidGraph
    /\ startNodeId \in NodeIds(nodes)
    /\ targetNodeId \in NodeIds(nodes)

C27_HeuristicManhattan ==
    C27_Case =>
        /\ Len(steps) = 1 => fScore[startNodeId] = ManhattanOf(startNodeId)
        /\ \A k \in DOMAIN UpdatedSteps :
              LET d == UpdatedSteps[k].description
              IN  d[4] - d[3] = ManhattanOf(d[2])

(***************************************************************************)
(* C28.  For every graph, algorithm tag, start and target the three copies *)
(* of the engine agree: all three fail, or all three return traces with    *)
(* the same number of steps and, step by step, the same step index,        *)
(* current node, visited set, queue or stack, distances and path.          *)
(***************************************************************************)
C28_CopiesAgree ==
    pc \in {"returned", "threw"} =>
        \A copy \in DOMAIN results : results[copy] = Outcome

(***************************************************************************)
(* C29.  After any sequence of changes in the editor (nodes added, edges   *)
(* added, nodes deleted, edges deleted, the graph cleared) and selections  *)
(* of the start and the target node, whenever the Home page starts a run   *)
(* the start node id it passes to the runner, and the target node id when  *)
(* one is set, is the id of a node of the current graph.                   *)
(***************************************************************************)
C29_RunOnNodesOfGraph ==
    pc = "called" =>
        /\ startNodeId \in NodeIds(nodes)
        /\ targetNodeId # NoTarget => targetNodeId \in NodeIds(nodes)


(***************************************************************************)
(* C30.  On the Home page, whenever a result is held the displayed current *)
(* node, visited nodes and path nodes are those of the step of the result  *)
(* at currentStepIndex, a step without a path being shown with an empty    *)
(* path, whatever the order of successful runs, ticks of the animation     *)
(* interval, stepForward and stepBackward; stopExecution clears the three  *)
(* together with the result and the cursor, and while no result is held    *)
(* the display stays cleared.                                              *)
(***************************************************************************)
CurrentStep == algorithmResult.steps[currentStepIndex + 1]

DisplayCleared ==
    /\ currentVisitedNodes = <<>>
    /\ currentPathNodes = <<>>
    /\ currentNodeId = Undefined

DisplayOfCurrentStep ==
    /\ currentVisitedNodes = CurrentStep.visited
    /\ currentNodeId = CurrentStep.current
    /\ currentPathNodes =
          (IF "path" \in DOMAIN CurrentStep THEN CurrentStep.path ELSE <<>>)

C30_DisplayFollowsCursor ==
    /\ [](IF algorithmResult # NoResult
          THEN DisplayOfCurrentStep
          ELSE DisplayCleared /\ currentStepIndex = -1)
    /\ [][stopExecution =>
            /\ currentVisitedNodes' = <<>>
            /\ currentPathNodes' = <<>>
            /\ currentNodeId' = Undefined
            /\ algorithmResult' = NoResult
            /\ currentStepIndex' = -1]_vars

\* The cursor is on a later step that carries a path of two nodes or more,
\* and the page shows it.
C30_Witness ==
    /\ pc = "idle" /\ algorithmResult # NoResult
    /\ currentStepIndex > 0
    /\ "path" \in DOMAIN CurrentStep
    /\ Len(currentPathNodes) >= 2

\* The cursor was stepped back from the last step to a step without a path
\* while the replay is paused: the page shows an empty path and the current
\* node of that step.
C30_WitnessNoPath ==
    /\ pc = "idle" /\ algorithmResult # NoResult /\ isPaused
    /\ currentStepIndex > 0
    /\ currentStepIndex < Len(algorithmResult.steps) - 1
    /\ "path" \notin DOMAIN CurrentStep
    /\ "path" \in DOMAIN algorithmResult.steps[Len(algorithmResult.steps)]
    /\ currentPathNodes = <<>>
    /\ currentNodeId \in NodeIds(nodes)

====
